---- MODULE Spec2Model ----
(***************************************************************************)
(* The ARC scoring engine: normalizer (scoring/normalizer.py) and          *)
(* aggregator (scoring/aggregator.py).                                     *)
(*                                                                         *)
(* Numbers.  A Python float is modelled as an exact rational <<n, d>> in   *)
(* lowest terms with d > 0; NaN is <<0, 0>>.  Arithmetic is exact (no      *)
(* floating-point rounding) except in two places, both stated where they   *)
(* occur: the normal CDF (a table, linear between its knots, to 0.01       *)
(* point) and the classical standard deviation (a square root, to 0.001).  *)
(* A pandas Series is a function from its index to numbers; a DataFrame is *)
(* a function from its row keys to the row's columns.  A local variable    *)
(* of the code that is read more than once is the parameter of the         *)
(* operator that continues the computation.                                *)
(***************************************************************************)
EXTENDS Integers, Sequences, FiniteSets, TLC

\* ------------------------------------------------------------------------
\* Bounds of the model
\* ------------------------------------------------------------------------
MaxRaw == 3          \* raw signal values are the integers 0..MaxRaw
MaxWeight == 3       \* configured weights are 0..MaxWeight fifths (0.6 = 3/5)
MaxMetric == 3       \* risk metrics are 0..MaxMetric steps
MaxTickers == 4      \* block-score tables hold 1..MaxTickers entities
MaxCount == 100      \* columns of distinct scores hold 1..MaxCount scores
MaxSaves == 2        \* save_version is called at most MaxSaves times
MaxClock == 1        \* the clock runs for MaxClock seconds
MaxCalls == 3        \* log_run calls made
MaxScored == 2       \* tables to validate hold 1..MaxScored scored entities
MaxRows == 5         \* tables with quintiles hold 1..MaxRows rows

\* ------------------------------------------------------------------------
\* Exact rationals
\* ------------------------------------------------------------------------
NaN == <<0, 0>>

Abs(x) == IF x < 0 THEN -x ELSE x

RECURSIVE GCD(_, _)
GCD(a, b) == IF b = 0 THEN a ELSE GCD(b, a % b)

\* n/d divided through by g, with d > 0
RatBy(n, d, g) ==
    <<(IF (n < 0) = (d < 0) THEN 1 ELSE -1) * (Abs(n) \div g), Abs(d) \div g>>

\* n/d in lowest terms, d > 0 (d # 0 required)
Rat(n, d) == RatBy(n, d, GCD(Abs(n), Abs(d)))

RInt(n) == <<n, 1>>
Zero == <<0, 1>>

IsNaN(x) == x[2] = 0          \* pd.isna
NotNa(x) == x[2] # 0          \* pd.notna

RNeg(x) == IF IsNaN(x) THEN NaN ELSE <<-x[1], x[2]>>

\* x + y over the least common denominator; g is the gcd of the denominators
RAddBy(x, y, g) ==
    Rat(x[1] * (y[2] \div g) + y[1] * (x[2] \div g), (x[2] \div g) * y[2])

RAdd(x, y) ==
    IF IsNaN(x) \/ IsNaN(y) THEN NaN ELSE RAddBy(x, y, GCD(x[2], y[2]))

RSub(x, y) == RAdd(x, RNeg(y))

\* cross-reduced first, so the product is formed in lowest terms
RMulBy(x, y, g1, g2) ==
    <<(x[1] \div g1) * (y[1] \div g2), (x[2] \div g2) * (y[2] \div g1)>>

RMul(x, y) ==
    IF IsNaN(x) \/ IsNaN(y) THEN NaN
    ELSE RMulBy(x, y, GCD(Abs(x[1]), y[2]), GCD(Abs(y[1]), x[2]))

\* no division of the modelled code has a zero divisor (each is guarded)
RDiv(x, y) ==
    IF IsNaN(x) \/ IsNaN(y) \/ y[1] = 0 THEN NaN
    ELSE RMul(x, IF y[1] < 0 THEN <<-y[2], -y[1]>> ELSE <<y[2], y[1]>>)

\* comparisons: every comparison with NaN is false, as for floats (the
\* two sides are brought to the least common denominator; g is the gcd of
\* the denominators)
RLtBy(x, y, g) == x[1] * (y[2] \div g) < y[1] * (x[2] \div g)
RLeBy(x, y, g) == x[1] * (y[2] \div g) <= y[1] * (x[2] \div g)

RLt(x, y) ==
    /\ NotNa(x) /\ NotNa(y)
    /\ IF x[2] = y[2] THEN x[1] < y[1] ELSE RLtBy(x, y, GCD(x[2], y[2]))
RLe(x, y) ==
    /\ NotNa(x) /\ NotNa(y)
    /\ IF x[2] = y[2] THEN x[1] <= y[1] ELSE RLeBy(x, y, GCD(x[2], y[2]))
RGt(x, y) == RLt(y, x)
RGe(x, y) == RLe(y, x)

\* Python's builtin max(a, b) and min(a, b): b only if it compares beyond a
PyMax(a, b) == IF RGt(b, a) THEN b ELSE a
PyMin(a, b) == IF RLt(b, a) THEN b ELSE a

\* ------------------------------------------------------------------------
\* pandas Series operations (NaN entries are skipped by every reduction)
\* ------------------------------------------------------------------------
Valid(s) == {i \in DOMAIN s : NotNa(s[i])}

\* the values of the entries I of s in non-decreasing order
RECURSIVE SortedOver(_, _)
SortedOver(s, I) ==
    IF I = {} THEN <<>>
    ELSE LET i == CHOOSE j \in I : \A l \in I : RLe(s[j], s[l])
         IN  <<s[i]>> \o SortedOver(s, I \ {i})

\* the valid entries of s, sorted
Sorted(s) == SortedOver(s, Valid(s))

\* x[lo] + (x[hi] - x[lo]) * frac, positions counted from 0
InterpolateAt(x, lo, frac) ==
    LET hi == IF lo + 1 > Len(x) - 1 THEN Len(x) - 1 ELSE lo + 1
    IN  RAdd(x[lo + 1], RMul(RSub(x[hi + 1], x[lo + 1]), frac))

\* the value at 100 * position pos100 of the sorted values x
Interpolate(x, pos100) ==
    InterpolateAt(x, pos100 \div 100, Rat(pos100 % 100, 100))

QuantileSorted(x, pct) ==
    IF Len(x) = 0 THEN NaN ELSE Interpolate(x, (Len(x) - 1) * pct)

\* Series.quantile(pct/100), linear interpolation; NaN for an empty series
Quantile(s, pct) == QuantileSorted(Sorted(s), pct)

Last(x) == IF Len(x) = 0 THEN NaN ELSE x[Len(x)]

\* Series.max(); NaN for an empty series
SeriesMax(s) == Last(Sorted(s))

ClipUpper(a, upper) == IF RGt(a, upper) THEN upper ELSE a

\* Series.clip(lower, upper): NaN entries stay NaN, a NaN bound does not clip
Clip(s, lower, upper) ==
    [i \in DOMAIN s |->
        IF IsNaN(s[i]) THEN NaN
        ELSE ClipUpper(IF RLt(s[i], lower) THEN lower ELSE s[i], upper)]

RAbs(x) == IF IsNaN(x) THEN NaN ELSE <<Abs(x[1]), x[2]>>

\* Series.median()
Median(s) == Quantile(s, 50)

RECURSIVE SumOver(_, _)
SumOver(s, I) ==
    IF I = {} THEN Zero
    ELSE LET i == CHOOSE j \in I : TRUE
         IN  RAdd(s[i], SumOver(s, I \ {i}))

MeanOver(s, I) ==
    IF I = {} THEN NaN ELSE RDiv(SumOver(s, I), RInt(Cardinality(I)))

\* Series.mean(): NaN for an empty series
Mean(s) == MeanOver(s, Valid(s))

RECURSIVE ISqrtIn(_, _, _)
ISqrtIn(x, lo, hi) ==
    IF lo >= hi THEN lo
    ELSE LET mid == (lo + hi + 1) \div 2
         IN  IF mid * mid <= x THEN ISqrtIn(x, mid, hi) ELSE ISqrtIn(x, lo, mid - 1)
\* floor of the square root of a natural number below 2^30 (bisection)
ISqrt(x) == ISqrtIn(x, 0, 32767)

RECURSIVE Pow10(_)
Pow10(k) == IF k = 0 THEN 1 ELSE 10 * Pow10(k - 1)

\* floor(n * 10^k / d) for n >= 0, d > 0, by long division (no large product)
RECURSIVE Scaled(_, _, _)
Scaled(n, d, k) ==
    IF k = 0 THEN n \div d
    ELSE (n \div d) * Pow10(k) + Scaled((n % d) * 10, d, k - 1)

\* floor(1000 * x) for a rational x >= 0
Milli(x) == Scaled(x[1], x[2], 3)

Square(x) == RMul(x, x)

\* the sample variance (ddof = 1) of the entries I of s around their mean m
Variance(s, I, m) ==
    RDiv(SumOver([i \in I |-> Square(RSub(s[i], m))], I), RInt(Cardinality(I) - 1))

\* r / 1000 for the root r of 10^6 * var, never 0 for a positive variance
SqrtMilli(r) == Rat(IF r = 0 THEN 1 ELSE r, 1000)

\* the square root of the variance, to 0.001 (rounded down)
StdOfVariance(var) ==
    IF var[1] = 0 THEN Zero ELSE SqrtMilli(ISqrt(Milli(var) * 1000))

StdOver(s, I) ==
    IF Cardinality(I) < 2 THEN NaN
    ELSE StdOfVariance(Variance(s, I, MeanOver(s, I)))

\* Series.std() (ddof = 1): NaN for fewer than two valid entries
Std(s) == StdOver(s, Valid(s))

\* ------------------------------------------------------------------------
\* The universe of the model
\* ------------------------------------------------------------------------
EntityOrder == <<"E1", "E2", "E3", "E4">>
Entities == {EntityOrder[i] : i \in 1..Len(EntityOrder)}
Signals == {"A", "B", "C"}
ScoreDate == "2024-01-31"
BlockNames == <<"contrarian", "turnaround", "piotroski", "quality">>

\* ------------------------------------------------------------------------
\* scoring/normalizer.py
\* ------------------------------------------------------------------------
PLow == 5                    \* winsorize_pct[0] = 0.05, in percent
PHigh == 95                  \* winsorize_pct[1] = 0.95, in percent
MadScale == <<7413, 5000>>   \* 1.4826
MadMin == <<1, 1000000>>     \* mad_min = 1e-6

winsorize(series, p_low, p_high) ==
    LET lower == Quantile(series, p_low)
        upper == Quantile(series, p_high)
    IN  Clip(series, lower, upper)

\* (series - center) / scale
ZScore(series, center, scale) ==
    [i \in DOMAIN series |-> RDiv(RSub(series[i], center), scale)]

\* mad = (series - center).abs().median()
MAD(series, center) ==
    Median([i \in DOMAIN series |-> RAbs(RSub(series[i], center))])

\* the robust branch, from the median on
RobustZScore(series, center) ==
    ZScore(series, center, PyMax(RMul(MAD(series, center), MadScale), MadMin))

robust_zscore(series, use_robust) ==
    IF use_robust
    THEN RobustZScore(series, Median(series))
    ELSE ZScore(series, Mean(series), PyMax(Std(series), MadMin))

\* 100 * Phi(z) in units of 0.01 at z = 0, 0.25, ..., 4.0 (rounded); the
\* model's norm.cdf is linear between these knots and 100.00 from z = 4 on.
CdfKnots ==
    <<5000, 5987, 6915, 7734, 8413, 8944, 9332, 9599, 9772,
      9878, 9938, 9970, 9987, 9994, 9998, 9999, 10000>>
CdfStep == 2500              \* knot spacing 0.25 in units of 0.0001
CdfEnd == 4                  \* the last knot

\* zu = floor(10000 * z), 0 <= z < CdfEnd
CdfUpper(zu) ==
    LET k == zu \div CdfStep
        r == zu % CdfStep
    IN  CdfKnots[k + 1] + ((CdfKnots[k + 2] - CdfKnots[k + 1]) * r) \div CdfStep

\* 10000 * Phi(a) for a >= 0
CdfAbs(a) ==
    IF RGe(a, RInt(CdfEnd)) THEN 10000 ELSE CdfUpper(Scaled(a[1], a[2], 4))

\* Phi(-z) = 1 - Phi(z); c = 10000 * Phi(|z|)
CdfSigned(z, c) == Rat(IF z[1] < 0 THEN 10000 - c ELSE c, 100)

\* norm.cdf(z) * 100 for one value; NaN for NaN
NormCdf100(z) == IF IsNaN(z) THEN NaN ELSE CdfSigned(z, CdfAbs(RAbs(z)))

zscore_to_0_100(zscore) == [i \in DOMAIN zscore |-> NormCdf100(zscore[i])]

\* date_df with its four value columns
DateFrame(value_raw, value_winsorized, value_zscore, value_normalized) ==
    [k \in DOMAIN value_raw |->
        [value_raw |-> value_raw[k],
         value_winsorized |-> value_winsorized[k],
         value_zscore |-> value_zscore[k],
         value_normalized |-> value_normalized[k]]]

\* date_df['value_normalized'] = zscore_to_0_100(date_df['value_zscore'])
WithNormalized(value_raw, value_winsorized, value_zscore) ==
    DateFrame(value_raw, value_winsorized, value_zscore,
              zscore_to_0_100(value_zscore))

\* zscore * direction
Directed(zscore, direction) ==
    [k \in DOMAIN zscore |-> RMul(zscore[k], RInt(direction))]

\* date_df['value_zscore'] = robust_zscore(...) * direction
WithZScore(value_raw, value_winsorized, direction, use_robust) ==
    WithNormalized(value_raw, value_winsorized,
                   Directed(robust_zscore(value_winsorized, use_robust), direction))

\* the body of the per-date loop of normalize_signal, for the rows of one
\* date: value_raw is the value_raw column of date_df
NormalizeDate(value_raw, direction, use_robust) ==
    WithZScore(value_raw, winsorize(value_raw, PLow, PHigh), direction, use_robust)

\* df_signals: [<<signal_name, date, ticker>> -> value_raw].
\* signal_df = df_signals[df_signals['signal_name'] == signal_name]: its keys
SignalRows(df_signals, signal_name) ==
    {k \in DOMAIN df_signals : k[1] = signal_name}

\* the per-date loop of normalize_signal: the normalized date_df of every
\* date of signal_df
DateResults(df_signals, signal_df, direction, use_robust) ==
    [date \in {k[2] : k \in signal_df} |->
        NormalizeDate([k \in {r \in signal_df : r[2] = date} |-> df_signals[k]],
                      direction, use_robust)]

\* pd.concat(results): the rows of every date
ConcatDates(signal_df, results) == [k \in signal_df |-> results[k[2]][k]]

\* normalize_signal with cross_sectional = False (lines 139-155): one
\* normalization over the rows of every date of the signal
normalize_signal_global(df_signals, signal_name, direction, use_robust) ==
    NormalizeDate([k \in SignalRows(df_signals, signal_name) |-> df_signals[k]],
                  direction, use_robust)

\* The result holds the rows of signal_name with the three added columns
\* (cross_sectional = True, the default and the only mode the engine uses).
normalize_signal(df_signals, signal_name, direction, use_robust) ==
    ConcatDates(SignalRows(df_signals, signal_name),
                DateResults(df_signals, SignalRows(df_signals, signal_name),
                            direction, use_robust))

\* the direction normalize_all_signals resolves for a signal: the entry of
\* the last block (in BlockNames order; 'signals' before 'subblocks') that
\* configures it, 1 when none does
RECURSIVE DirectionUpTo(_, _, _)
DirectionUpTo(config, signal_name, n) ==
    IF n = 0 THEN 1
    ELSE LET block_config == config.blocks[BlockNames[n]]
             subs == {sb \in DOMAIN block_config.subblocks :
                        signal_name \in DOMAIN block_config.subblocks[sb].signals}
         IN  IF subs # {}
             THEN block_config.subblocks[CHOOSE sb \in subs : TRUE]
                      .signals[signal_name].direction
             ELSE IF signal_name \in DOMAIN block_config.signals
             THEN block_config.signals[signal_name].direction
             ELSE DirectionUpTo(config, signal_name, n - 1)

\* signal_directions that never reads the configuration: every signal gets
\* the default direction 1
signal_directions_default(config, signal_name) == 1

signal_directions(config, signal_name) ==
    DirectionUpTo(config, signal_name, Len(BlockNames))

\* pd.concat(normalized_signals): the rows of every signal
ConcatSignals(df_signals, normalized_signals) ==
    [k \in DOMAIN df_signals |-> normalized_signals[k[1]][k]]

normalize_all_signals(df_signals, config) ==
    ConcatSignals(df_signals,
                  [signal_name \in {k[1] : k \in DOMAIN df_signals} |->
                      normalize_signal(df_signals, signal_name,
                                       signal_directions(config, signal_name),
                                       config.use_robust)])

\* ------------------------------------------------------------------------
\* scoring/aggregator.py
\* ------------------------------------------------------------------------
\* df_signals: [<<signal_name, date, ticker>> -> row with value_normalized].
\* The loop of aggregate_weighted over the configured signals in todo:
\* acc = <<weighted_sum, total_weight, component_scores>>.
RECURSIVE AggregateLoop(_, _, _, _, _, _)
AggregateLoop(df_signals, ticker, date, signal_weights, todo, acc) ==
    IF todo = {} THEN acc
    ELSE LET signal_name == CHOOSE n \in todo : TRUE
             weight == signal_weights[signal_name]
             key == <<signal_name, date, ticker>>
             present == /\ key \in DOMAIN df_signals
                        /\ NotNa(df_signals[key].value_normalized)
             value == df_signals[key].value_normalized
             next == IF present
                     THEN <<RAdd(acc[1], RMul(value, weight)),
                            RAdd(acc[2], weight),
                            acc[3] \cup {<<signal_name, value>>}>>
                     ELSE acc
         IN  AggregateLoop(df_signals, ticker, date, signal_weights,
                           todo \ {signal_name}, next)

\* weighted_sum / total_weight if total_weight > 0, else np.nan
WeightedAverage(weighted_sum, total_weight) ==
    IF RGt(total_weight, Zero) THEN RDiv(weighted_sum, total_weight) ELSE NaN

\* the return value of aggregate_weighted after its loop
AggregateResult(acc) ==
    [score |-> WeightedAverage(acc[1], acc[2]), components |-> acc[3]]

\* the return value when the weighted sum is divided by the total weight
\* of the configured signals
AggregateResultOver(acc, configured) ==
    [score |-> IF RGt(acc[2], Zero) THEN RDiv(acc[1], configured) ELSE NaN,
     components |-> acc[3]]

\* aggregate_weighted dividing by the weight of every configured signal,
\* present or not (no renormalization over the present ones)
aggregate_weighted_all_weights(df_signals, ticker, date, signal_weights) ==
    AggregateResultOver(AggregateLoop(df_signals, ticker, date, signal_weights,
                                      DOMAIN signal_weights, <<Zero, Zero, {}>>),
                        SumOver(signal_weights, DOMAIN signal_weights))

aggregate_weighted(df_signals, ticker, date, signal_weights) ==
    AggregateResult(AggregateLoop(df_signals, ticker, date, signal_weights,
                                  DOMAIN signal_weights, <<Zero, Zero, {}>>))

\* {name: cfg.get('weight', 0)} of a 'signals' section
SignalWeights(signals) == [n \in DOMAIN signals |-> signals[n].weight]

compute_contrarian_score(df_signals, ticker, date, config) ==
    aggregate_weighted(df_signals, ticker, date,
                       SignalWeights(config.blocks["contrarian"].signals)).score

compute_turnaround_score(df_signals, ticker, date, config) ==
    aggregate_weighted(df_signals, ticker, date,
                       SignalWeights(config.blocks["turnaround"].signals)).score

\* conversion = 'linear' (the default): raw 0..9 to 0..100
compute_piotroski_score(df_signals, ticker, date, config) ==
    LET key == <<"piotroski_raw", date, ticker>>
    IN  IF key \notin DOMAIN df_signals THEN NaN
        ELSE RMul(RDiv(df_signals[key].value_raw, RInt(9)), RInt(100))

\* the second loop of compute_quality_score, over the sub-block scores
RECURSIVE SubblockLoop(_, _, _, _)
SubblockLoop(subblock_scores, subblock_weights, todo, acc) ==
    IF todo = {} THEN acc
    ELSE LET subblock_name == CHOOSE n \in todo : TRUE
             score == subblock_scores[subblock_name]
             weight == subblock_weights[subblock_name]
             next == IF NotNa(score)
                     THEN <<RAdd(acc[1], RMul(score, weight)), RAdd(acc[2], weight)>>
                     ELSE acc
         IN  SubblockLoop(subblock_scores, subblock_weights,
                          todo \ {subblock_name}, next)

\* the first loop of compute_quality_score: the score of every sub-block
SubblockScores(df_signals, ticker, date, config) ==
    LET quality_config == config.blocks["quality"].subblocks
    IN  [sb \in DOMAIN quality_config |->
            aggregate_weighted(df_signals, ticker, date,
                               SignalWeights(quality_config[sb].signals)).score]

\* {subblock_name: subblock_config.get('weight', 0)}
SubblockWeights(config) ==
    [sb \in DOMAIN config.blocks["quality"].subblocks |->
        config.blocks["quality"].subblocks[sb].weight]

\* the sums of the defined sub-block scores: <<weighted_sum, total_weight>>
SubblockSums(df_signals, ticker, date, config) ==
    SubblockLoop(SubblockScores(df_signals, ticker, date, config),
                 SubblockWeights(config),
                 DOMAIN config.blocks["quality"].subblocks, <<Zero, Zero>>)

\* the quality score when the weighted sum is divided by the total weight
\* of the configured sub-blocks
QualityOver(acc, configured) ==
    IF RGt(acc[2], Zero) THEN RDiv(acc[1], configured) ELSE NaN

\* compute_quality_score dividing by the weight of every configured
\* sub-block, defined or not
compute_quality_score_all_weights(df_signals, ticker, date, config) ==
    QualityOver(SubblockSums(df_signals, ticker, date, config),
                SumOver(SubblockWeights(config), DOMAIN SubblockWeights(config)))

QualityResult(acc) == WeightedAverage(acc[1], acc[2])

compute_quality_score(df_signals, ticker, date, config) ==
    QualityResult(SubblockSums(df_signals, ticker, date, config))

PenaltyEps == <<1, 1000000>>     \* the 1e-6 of the excess denominator

\* lines 294-297: the penalty for a metric value, given the threshold and
\* the maximum of its date; NaN stands for "no penalty recorded"
PenaltyAbove(value, threshold, vmax, max_penalty) ==
    IF NotNa(value) /\ RGt(value, threshold)
    THEN PyMin(RMul(RDiv(RSub(value, threshold),
                         RAdd(RSub(vmax, threshold), PenaltyEps)),
                    max_penalty),
               max_penalty)
    ELSE NaN

\* lines 290-297: all_values is the rule's column on the date
PenaltyFor(value, all_values, penalty_config) ==
    PenaltyAbove(value,
                 Quantile(all_values, penalty_config.threshold_percentile),
                 SeriesMax(all_values),
                 penalty_config.max_penalty)

\* the rule's column on the date: df_risk[df_risk['date'] == date][penalty_name]
DateValues(df_risk, date, penalty_name) ==
    [k \in {r \in DOMAIN df_risk.rows : r[1] = date} |-> df_risk.rows[k][penalty_name]]

\* RulePenalty without the affected_scores test: every rule applies to
\* every block
RulePenalty_every_block(ticker, date, df_risk, penalty_name, penalty_config, block) ==
    IF penalty_name \notin df_risk.columns THEN NaN
    ELSE PenaltyFor(df_risk.rows[<<date, ticker>>][penalty_name],
                    DateValues(df_risk, date, penalty_name), penalty_config)

\* df_risk: [columns |-> the metric columns, rows |-> [<<date, ticker>> ->
\* [column -> value]]].  The penalty of one rule for one entity: NaN stands
\* for "no penalty recorded" (the rule is skipped or the metric does not
\* exceed the threshold).
RulePenalty(ticker, date, df_risk, penalty_name, penalty_config, block) ==
    IF block \notin penalty_config.affected_scores
       /\ "all" \notin penalty_config.affected_scores
    THEN NaN
    ELSE IF penalty_name \notin df_risk.columns THEN NaN
    ELSE PenaltyFor(df_risk.rows[<<date, ticker>>][penalty_name],
                    DateValues(df_risk, date, penalty_name), penalty_config)

\* total_penalty += penalty; penalty_details[penalty_name] = penalty
AddPenalty(acc, penalty_name, penalty) ==
    IF NotNa(penalty)
    THEN <<RAdd(acc[1], penalty), acc[2] \cup {<<penalty_name, penalty>>}>>
    ELSE acc

\* the loop of apply_risk_penalties: acc = <<total_penalty, penalty_details>>
RECURSIVE PenaltyLoop(_, _, _, _, _, _, _)
PenaltyLoop(ticker, date, df_risk, penalties_config, block, todo, acc) ==
    IF todo = {} THEN acc
    ELSE LET penalty_name == CHOOSE n \in todo : TRUE
         IN  PenaltyLoop(ticker, date, df_risk, penalties_config, block,
                         todo \ {penalty_name},
                         AddPenalty(acc, penalty_name,
                                    RulePenalty(ticker, date, df_risk, penalty_name,
                                                penalties_config[penalty_name], block)))

\* <<total_penalty, penalty_details>> over every configured rule
Penalties(ticker, date, df_risk, config, block) ==
    PenaltyLoop(ticker, date, df_risk, config.soft_penalties, block,
                DOMAIN config.soft_penalties, <<Zero, {}>>)

\* adjusted_score = max(0, score - total_penalty)
Floored(score, acc) ==
    [adjusted |-> PyMax(Zero, RSub(score, acc[1])), penalties |-> acc[2]]

\* score - total_penalty
Unfloored(score, acc) ==
    [adjusted |-> RSub(score, acc[1]), penalties |-> acc[2]]

\* max(0, score - total_penalty) for any score: Python's max(0, nan) is 0
FlooredAny(score, acc) ==
    [adjusted |-> PyMax(Zero, IF IsNaN(score) THEN NaN ELSE RSub(score, acc[1])),
     penalties |-> acc[2]]

\* apply_risk_penalties returning score - total_penalty without the floor
apply_risk_penalties_no_floor(score, ticker, date, df_risk, config, block) ==
    IF IsNaN(score) THEN [adjusted |-> score, penalties |-> {}]
    ELSE IF <<date, ticker>> \notin DOMAIN df_risk.rows
    THEN [adjusted |-> score, penalties |-> {}]
    ELSE Unfloored(score, Penalties(ticker, date, df_risk, config, block))

\* apply_risk_penalties without the early return for an undefined score:
\* the rules are applied and Python's max(0, nan) is 0
apply_risk_penalties_no_isna(score, ticker, date, df_risk, config, block) ==
    IF <<date, ticker>> \notin DOMAIN df_risk.rows
    THEN [adjusted |-> score, penalties |-> {}]
    ELSE FlooredAny(score, Penalties(ticker, date, df_risk, config, block))

apply_risk_penalties(score, ticker, date, df_risk, config, block) ==
    IF IsNaN(score) THEN [adjusted |-> score, penalties |-> {}]
    ELSE IF <<date, ticker>> \notin DOMAIN df_risk.rows
    THEN [adjusted |-> score, penalties |-> {}]
    ELSE Floored(score, Penalties(ticker, date, df_risk, config, block))

BlockScoreRaw(df_signals, ticker, date, config, block) ==
    CASE block = "contrarian" -> compute_contrarian_score(df_signals, ticker, date, config)
      [] block = "turnaround" -> compute_turnaround_score(df_signals, ticker, date, config)
      [] block = "piotroski" -> compute_piotroski_score(df_signals, ticker, date, config)
      [] block = "quality" -> compute_quality_score(df_signals, ticker, date, config)

\* the 'subblock_scores' of the quality row's details (empty for the others)
BlockDetails(df_signals, ticker, date, config, block) ==
    IF block = "quality" THEN SubblockScores(df_signals, ticker, date, config)
    ELSE [x \in {} |-> 0]

\* a row of the result: results.append({...})
ScoreRow(score, adj, details) ==
    [score_raw |-> score,
     score_adjusted |-> adj.adjusted,
     penalties |-> adj.penalties,
     subblock_scores |-> details]

\* the row of block k[3] for ticker k[2] on date k[1], from its raw score
BlockRow(score, k, df_signals, df_risk, config) ==
    ScoreRow(score,
             apply_risk_penalties(score, k[2], k[1], df_risk, config, k[3]),
             BlockDetails(df_signals, k[2], k[1], config, k[3]))

\* [<<date, ticker, block>> -> [score_raw, score_adjusted, penalties,
\* subblock_scores]] for every (ticker, date) of df_signals and each of the
\* four blocks
compute_all_scores(df_signals, df_risk, config) ==
    [k \in {<<td[2], td[1], BlockNames[b]>> :
               td \in {<<r[3], r[2]>> : r \in DOMAIN df_signals},
               b \in 1..Len(BlockNames)} |->
        BlockRow(BlockScoreRaw(df_signals, k[2], k[1], config, k[3]),
                 k, df_signals, df_risk, config)]

\* ---------------------------------------------------------------------------
\* recalculate_quintiles.py: quintiles by percentile rank
\* ---------------------------------------------------------------------------
\* the rank taken from the largest value down (ascending = False)
AverageRank_descending(s, valid, i) ==
    Rat(2 * Cardinality({j \in valid : RGt(s[j], s[i])})
        + Cardinality({j \in valid : s[j] = s[i]}) + 1, 2)

\* Series.rank(): the average of the ranks of the entries equal to s[i]
AverageRank(s, valid, i) ==
    Rat(2 * Cardinality({j \in valid : RLt(s[j], s[i])})
        + Cardinality({j \in valid : s[j] = s[i]}) + 1, 2)

\* Series.rank(pct = True): the rank over the number of valid entries
PctRank(s, valid, i) == RDiv(AverageRank(s, valid, i), RInt(Cardinality(valid)))

\* pd.cut(bins = [0, 0.2, 0.4, 0.6, 0.8, 1.0], labels = [1..5],
\* include_lowest = True), right = True by default: the intervals
\* [0, 0.2], (0.2, 0.4], (0.4, 0.6], (0.6, 0.8], (0.8, 1.0], NaN outside
Bins == [q \in 0..5 |-> Rat(q, 5)]

\* the bands closed on the left: [0, 0.2), [0.2, 0.4), ..., [0.8, 1.0]
Cut_left_closed(x) ==
    IF RLt(x, Bins[0]) \/ RGt(x, Bins[5]) \/ IsNaN(x) THEN NaN
    ELSE RInt(CHOOSE q \in 1..5 :
                 /\ RGe(x, Bins[q - 1])
                 /\ q < 5 => RLt(x, Bins[q]))

Cut(x) ==
    IF RLt(x, Bins[0]) \/ RGt(x, Bins[5]) \/ IsNaN(x) THEN NaN
    ELSE RInt(CHOOSE q \in 1..5 :
                 /\ RLe(x, Bins[q])
                 /\ q > 1 => RGt(x, Bins[q - 1]))

\* <NA> of the Int64 result is NaN here
calculate_quintiles(series) ==
    IF Valid(series) = {} THEN [i \in DOMAIN series |-> NaN]
    ELSE [i \in DOMAIN series |->
            IF IsNaN(series[i]) THEN NaN
            ELSE Cut(PctRank(series, Valid(series), i))]

\* ---------------------------------------------------------------------------
\* aggregator.py: quintiles by z cutoffs
\* ---------------------------------------------------------------------------
\* the cutoffs -0.84, -0.25, 0.25 and 0.84 of get_quintile
ZCutoffs == <<Rat(-84, 100), Rat(-25, 100), Rat(25, 100), Rat(84, 100)>>

\* the chain of comparisons of get_quintile; every comparison with a NaN z
\* is false, which leaves the last branch
ZQuintile(z) ==
    IF RLt(z, ZCutoffs[1]) THEN RInt(1)
    ELSE IF RLt(z, ZCutoffs[2]) THEN RInt(2)
    ELSE IF RLt(z, ZCutoffs[3]) THEN RInt(3)
    ELSE IF RLt(z, ZCutoffs[4]) THEN RInt(4)
    ELSE RInt(5)

\* get_quintile comparing the deviation from the mean, not the z-score
get_quintile_no_stddev(score, mean, stddev) ==
    IF IsNaN(score) \/ stddev = Zero THEN NaN
    ELSE ZQuintile(RSub(score, mean))

\* get_quintile without the test for an undefined score
get_quintile_no_isna(score, mean, stddev) ==
    IF stddev = Zero THEN NaN
    ELSE ZQuintile(RDiv(RSub(score, mean), stddev))

get_quintile(score, mean, stddev) ==
    IF IsNaN(score) \/ stddev = Zero THEN NaN
    ELSE ZQuintile(RDiv(RSub(score, mean), stddev))

\* the rows of the reference block
RefKeys(df_scores, reference_block) ==
    {k \in DOMAIN df_scores : k[3] = reference_block}

\* score_adjusted of the reference rows of one date, by ticker
DateScores(df_scores, ref_keys, date) ==
    [ticker \in {k[2] : k \in {r \in ref_keys : r[1] = date}} |->
        df_scores[CHOOSE r \in ref_keys : r[1] = date /\ r[2] = ticker].score_adjusted]

\* the quintiles of a date taken by percentile rank
DateQuintiles_by_rank(date_scores, mean, stddev) == calculate_quintiles(date_scores)

DateQuintiles(date_scores, mean, stddev) ==
    [ticker \in DOMAIN date_scores |-> get_quintile(date_scores[ticker], mean, stddev)]

\* one entry per reference row: (date, ticker) -> quintile
QuintileDf(df_scores, ref_keys) ==
    [dt \in {<<k[1], k[2]>> : k \in ref_keys} |->
        DateQuintiles(DateScores(df_scores, ref_keys, dt[1]),
                      Mean(DateScores(df_scores, ref_keys, dt[1])),
                      Std(DateScores(df_scores, ref_keys, dt[1])))[dt[2]]]

\* the merge on the ticker alone: a row gets a quintile of its ticker of
\* whatever date
MergeQuintiles_on_ticker(df_scores, quintile_df) ==
    [k \in DOMAIN df_scores |->
        [quintile |-> IF \E dt \in DOMAIN quintile_df : dt[2] = k[2] /\ NotNa(quintile_df[dt])
                      THEN quintile_df[CHOOSE dt \in DOMAIN quintile_df :
                                          dt[2] = k[2] /\ NotNa(quintile_df[dt])]
                      ELSE NaN]
        @@ df_scores[k]]

\* merge(quintile_df, on = ['date', 'ticker'], how = 'left'): every row of
\* df_scores gets the quintile of its (date, ticker), NaN without a match
MergeQuintiles(df_scores, quintile_df) ==
    [k \in DOMAIN df_scores |->
        [quintile |-> IF <<k[1], k[2]>> \in DOMAIN quintile_df
                      THEN quintile_df[<<k[1], k[2]>>] ELSE NaN]
        @@ df_scores[k]]

add_quintiles(df_scores, reference_block) ==
    MergeQuintiles(df_scores, QuintileDf(df_scores, RefKeys(df_scores, reference_block)))

\* ---------------------------------------------------------------------------
\* governance.py: VersionManager
\* ---------------------------------------------------------------------------
\* Python values: a scalar has a type and its text, a dict has its items
\* (key, value) in insertion order; the keys of one dict are of one type
PyValue(type, text) == [type |-> type, text |-> text, items |-> <<>>]
PyDict(items) == [type |-> "dict", text |-> "", items |-> items]
PyKey(type, text) == [type |-> type, text |-> text]
Item(key, value) == [key |-> key, value |-> value]
PyInt(text) == PyValue("int", text)
PyStr(text) == PyValue("str", text)
StrItem(name, value) == Item(PyKey("str", name), value)
EmptyDict == PyDict(<<>>)

Range(seq) == {seq[i] : i \in DOMAIN seq}

\* dict == dict: the same keys with equal values, whatever the order
RECURSIVE PyEq(_, _)
PyEq(a, b) ==
    IF a.type # "dict" \/ b.type # "dict" THEN a = b
    ELSE /\ Len(a.items) = Len(b.items)
         /\ \A i \in DOMAIN a.items : \E j \in DOMAIN b.items :
               /\ a.items[i].key = b.items[j].key
               /\ PyEq(a.items[i].value, b.items[j].value)

\* the order of sorted() on the keys that occur (numbers, letters)
KeyOrder == <<"1", "2", "a", "b", "x", "y">>
KeyRank(key) == CHOOSE i \in DOMAIN KeyOrder : KeyOrder[i] = key.text

\* sorted(dct.items()): the item with n - 1 smaller keys comes n-th
SortedItems(items) ==
    [n \in DOMAIN items |->
        CHOOSE it \in Range(items) :
            Cardinality({o \in Range(items) : KeyRank(o.key) < KeyRank(it.key)}) = n - 1]

\* the JSON type written for a Python scalar
JsonType(type) ==
    CASE type = "int" -> "number"
      [] type = "str" -> "string"
      [] type = "NoneType" -> "null"
      [] type = "list" -> "array"

\* json.dumps / json.dump: the document written for a value; a key of any
\* scalar type is written as a string member name, the members are in
\* insertion order or, with sort_keys, in the order of the sorted keys
RECURSIVE json_dumps(_, _)
json_dumps(obj, sort_keys) ==
    IF obj.type # "dict" THEN [type |-> JsonType(obj.type), text |-> obj.text, members |-> <<>>]
    ELSE [type |-> "object", text |-> "",
          members |-> [n \in DOMAIN obj.items |->
              [name |-> (IF sort_keys THEN SortedItems(obj.items) ELSE obj.items)[n].key.text,
               value |-> json_dumps((IF sort_keys THEN SortedItems(obj.items)
                                     ELSE obj.items)[n].value, sort_keys)]]]

\* the Python type read for a JSON scalar
PyType(type) ==
    CASE type = "number" -> "int"
      [] type = "string" -> "str"
      [] type = "null" -> "NoneType"
      [] type = "array" -> "list"

\* json.load: an object becomes a dict with str keys, in document order
RECURSIVE json_load(_)
json_load(doc) ==
    IF doc.type # "object" THEN PyValue(PyType(doc.type), doc.text)
    ELSE PyDict([n \in DOMAIN doc.members |->
                    StrItem(doc.members[n].name, json_load(doc.members[n].value))])

\* hashlib.sha256(...).hexdigest()[:12]: a digest stands for the text it was
\* taken of (distinct texts are taken to have distinct digests)
sha256(text) == [digest_of |-> text]

\* the hash of the text written without sort_keys
compute_config_hash_unsorted(config) == sha256(json_dumps(config, FALSE))

compute_config_hash(config) == sha256(json_dumps(config, TRUE))

\* '' and None are both no version name
NoName == ""

\* f"{timestamp}_{config_hash}", preceded by the name when there is one
VersionId(version_name, timestamp, config_hash) ==
    [version_name |-> version_name, timestamp |-> timestamp, config_hash |-> config_hash]

\* the dictionary save_version writes; timestamp is the clock in seconds
VersionData(config, version_name, metadata, config_hash, timestamp) ==
    [version_id |-> VersionId(version_name, timestamp, config_hash),
     config_hash |-> config_hash,
     timestamp |-> timestamp,
     config |-> config,
     metadata |-> IF metadata \in {PyValue("NoneType", "None"), EmptyDict}
                  THEN EmptyDict ELSE metadata]

\* json.dump(version_data, f, indent = 2, default = str): the file
VersionFile(version_data) ==
    [version_data EXCEPT !.config = json_dumps(@, FALSE),
                         !.metadata = json_dumps(@, FALSE)]

\* open(version_file, 'w') creates the file or replaces its content
WriteVersion(version_dir, version_data) ==
    [v \in DOMAIN version_dir \cup {version_data.version_id} |->
        IF v = version_data.version_id THEN VersionFile(version_data)
        ELSE version_dir[v]]

save_version(version_dir, now, config, version_name, metadata) ==
    WriteVersion(version_dir,
                 VersionData(config, version_name, metadata,
                             compute_config_hash(config), now))

\* the version id save_version returns
SavedVersionId(now, config, version_name) ==
    VersionId(version_name, now, compute_config_hash(config))

\* the record read, or the error raised for a missing file:
\* FileNotFoundError(f"Version not found: {version_id}")
NotFound(version_id) == [error |-> "FileNotFoundError", version_id |-> version_id]

\* a missing file read as an empty record
load_version_default(version_dir, version_id) ==
    IF version_id \notin DOMAIN version_dir
    THEN [version_id |-> version_id, config |-> EmptyDict, metadata |-> EmptyDict]
    ELSE [version_dir[version_id] EXCEPT !.config = json_load(@),
                                         !.metadata = json_load(@)]

load_version(version_dir, version_id) ==
    IF version_id \notin DOMAIN version_dir THEN NotFound(version_id)
    ELSE [version_dir[version_id] EXCEPT !.config = json_load(@),
                                         !.metadata = json_load(@)]

\* file names compare as text: a name that begins with the timestamp sorts
\* before one that begins with a version name (digits before letters), and
\* names with the same beginning sort by timestamp
NameBefore(a, b) ==
    IF a.version_name # b.version_name THEN a.version_name = NoName
    ELSE a.timestamp < b.timestamp

\* sorted(version_dir.glob('*.json'), reverse = True): the order of two names
\* that differ in the digest alone is that of the hexadecimal digests, which
\* are not computed here: one fixed order stands for it
RECURSIVE SortedReverse(_)
LastFirst(names, last) == <<last>> \o SortedReverse(names \ {last})
SortedReverse(names) ==
    IF names = {} THEN <<>>
    ELSE LastFirst(names, CHOOSE v \in names : \A w \in names : ~NameBefore(v, w))

\* data.get('metadata', {}) and the three fields read from a file
VersionSummary(file) ==
    [version_id |-> file.version_id,
     timestamp |-> file.timestamp,
     config_hash |-> file.config_hash,
     metadata |-> json_load(file.metadata)]

ListOver(version_dir, order) ==
    [i \in DOMAIN order |-> VersionSummary(version_dir[order[i]])]

\* one summary per file, in the reverse order of the file names
list_versions(version_dir) == ListOver(version_dir, SortedReverse(DOMAIN version_dir))

\* ------------------------------------------------------------------------
\* AuditLogger (governance/governance.py)
\* ------------------------------------------------------------------------
\* a log_run call: [run_id, version_id, tickers, date_range, status, metrics]
\* with tickers a list and date_range a pair

\* tickers[:10]
FirstTen(tickers) ==
    SubSeq(tickers, 1, IF Len(tickers) < 10 THEN Len(tickers) ELSE 10)

\* the dictionary log_run builds; timestamp is the clock
audit_entry(now, call) ==
    [run_id |-> call.run_id,
     version_id |-> call.version_id,
     timestamp |-> now,
     tickers_count |-> Len(call.tickers),
     tickers |-> FirstTen(call.tickers),
     date_range |-> [start |-> call.date_range[1], end |-> call.date_range[2]],
     status |-> call.status,
     metrics |-> IF call.metrics \in {PyValue("NoneType", "None"), EmptyDict}
                 THEN EmptyDict ELSE call.metrics]

\* json.dump(audit_entry, f, indent = 2): the file
AuditFile(entry) == [entry EXCEPT !.metrics = json_dumps(@, FALSE)]

\* open(audit_dir / f"run_{run_id}.json", 'w') creates the file or replaces
\* its content
log_run(audit_dir, now, call) ==
    [f \in DOMAIN audit_dir \cup {call.run_id} |->
        IF f = call.run_id THEN AuditFile(audit_entry(now, call))
        ELSE audit_dir[f]]

\* ------------------------------------------------------------------------
\* The file operations of save_version and log_run
\* ------------------------------------------------------------------------
\* "with open(file, 'w') as f: json.dump(record, f)" opens the file (created
\* or truncated), writes the text through the buffer of f and closes it: the
\* text reaches the file in one write per buffer, each at the offset of f.
\* A file is the sequence of the blocks written; a record with metadata
\* (metrics) is two buffers long, one without is one buffer long.
Hole == [record |-> [op |-> "none"], part |-> 0]

FileBlocks(record, has_more) ==
    IF has_more THEN <<[record |-> record, part |-> 1], [record |-> record, part |-> 2]>>
    ELSE <<[record |-> record, part |-> 1]>>

VersionBlocks(version_data) ==
    FileBlocks(VersionFile(version_data), version_data.metadata # EmptyDict)

AuditBlocks(entry) ==
    FileBlocks(AuditFile(entry), entry.metrics # EmptyDict)

\* open(file, 'w'): the file exists and is empty
OpenTruncate(files, name) ==
    [f \in DOMAIN files \cup {name} |-> IF f = name THEN <<>> ELSE files[f]]

\* write(fd, block) at an offset: the file grows to hold it, the bytes
\* between the old end and the offset read as zeros
WriteAt(content, offset, block) ==
    [i \in 1..(IF Len(content) > offset THEN Len(content) ELSE offset + 1) |->
        IF i = offset + 1 THEN block
        ELSE IF i <= Len(content) THEN content[i] ELSE Hole]

\* ------------------------------------------------------------------------
\* ScoreValidator and RegressionTester (governance/governance.py)
\* ------------------------------------------------------------------------
\* df_scores: [<<date, ticker, block>> -> row with score_adjusted and, once
\* add_quintiles ran, quintile].  Lists of entries are sets: no two entries
\* of a list are equal.  The standard deviations of a report (std,
\* std_diff), which nothing else in a report depends on, are left out.
Empty == [x \in {} |-> 0]

ExpectedMin == 0         \* expected_range = (0, 100)
ExpectedMax == 100
PyNone == PyValue("NoneType", "None")

\* df_scores[df_scores['block'] == block]['score_adjusted']
BlockScores(df_scores, block) ==
    [k \in {r \in DOMAIN df_scores : r[3] = block} |-> df_scores[k].score_adjusted]

\* valid_scores[(valid_scores < lo) | (valid_scores > hi)]: the keys
OutOfRange(block_scores, lo, hi) ==
    {k \in Valid(block_scores) :
        RLt(block_scores[k], lo) \/ RGt(block_scores[k], hi)}

MinOver(s, I) == SortedOver(s, I)[1]
MaxOver(s, I) == Last(SortedOver(s, I))

RangeEntry(block, block_scores, out) ==
    [block |-> block, count |-> Cardinality(out),
     min |-> MinOver(block_scores, out), max |-> MaxOver(block_scores, out)]

BlockStatistics(block_scores, valid) ==
    IF valid = {}
    THEN [mean |-> PyNone, min |-> PyNone, max |-> PyNone, count |-> 0]
    ELSE [mean |-> MeanOver(block_scores, valid),
          min |-> MinOver(block_scores, valid),
          max |-> MaxOver(block_scores, valid),
          count |-> Cardinality(valid)]

BlocksOf(df_scores) == {k[3] : k \in DOMAIN df_scores}

NullCount(block_scores) == Cardinality(DOMAIN block_scores \ Valid(block_scores))

\* report['valid'] made False by a null score as well
ScoresValid_null_invalid(df_scores, lo, hi) ==
    \A b \in BlocksOf(df_scores) :
        /\ OutOfRange(BlockScores(df_scores, b), lo, hi) = {}
        /\ NullCount(BlockScores(df_scores, b)) = 0

\* report['valid']: True unless some block has a score out of range
ScoresValid(df_scores, lo, hi) ==
    \A b \in BlocksOf(df_scores) :
        OutOfRange(BlockScores(df_scores, b), lo, hi) = {}

validate_scores(df_scores, lo, hi) ==
    [op |-> "validate_scores",
     valid |-> ScoresValid(df_scores, lo, hi),
     out_of_range |->
        {RangeEntry(b, BlockScores(df_scores, b),
                    OutOfRange(BlockScores(df_scores, b), lo, hi)) :
            b \in {c \in BlocksOf(df_scores) :
                      OutOfRange(BlockScores(df_scores, c), lo, hi) # {}}},
     null_scores |->
        {[block |-> b, count |-> NullCount(BlockScores(df_scores, b))] :
            b \in {c \in BlocksOf(df_scores) :
                      NullCount(BlockScores(df_scores, c)) > 0}},
     statistics |->
        [b \in BlocksOf(df_scores) |->
            BlockStatistics(BlockScores(df_scores, b),
                            Valid(BlockScores(df_scores, b)))]]

ExpectedPct == Rat(20, 100)          \* expected_pct = 0.20
QuintileTolerance == Rat(10, 100)    \* tolerance = 0.10

\* 'quintile' in df_scores.columns
HasQuintileColumn(df_scores) ==
    \A k \in DOMAIN df_scores : "quintile" \in DOMAIN df_scores[k]

\* df_scores['quintile'].value_counts(normalize = True).get(q, 0): the
\* share of q among the rows that have a quintile
QuintileShare(column, q) ==
    IF {k \in DOMAIN column : column[k] = RInt(q)} = {} THEN Zero
    ELSE Rat(Cardinality({k \in DOMAIN column : column[k] = RInt(q)}),
             Cardinality(Valid(column)))

Deviates(pct, expected_pct, tolerance) ==
    RGt(RAbs(RSub(pct, expected_pct)), tolerance)

QuintileColumn(df_scores) == [k \in DOMAIN df_scores |-> df_scores[k].quintile]

DistributionReport(column, expected_pct, tolerance) ==
    [op |-> "validate_quintile_distribution",
     valid |-> TRUE,
     distribution |-> [q \in 1..5 |-> QuintileShare(column, q)],
     warnings |-> {[quintile |-> q, pct |-> QuintileShare(column, q)] :
                     q \in {r \in 1..5 :
                               Deviates(QuintileShare(column, r), expected_pct, tolerance)}}]

NoQuintileColumn ==
    [op |-> "validate_quintile_distribution", valid |-> FALSE,
     distribution |-> Empty, warnings |-> {[message |-> "No quintile column found"]}]

validate_quintile_distribution(df_scores, expected_pct, tolerance) ==
    IF ~HasQuintileColumn(df_scores) THEN NoQuintileColumn
    ELSE DistributionReport(QuintileColumn(df_scores), expected_pct, tolerance)

\* df_scores.to_parquet(baseline_dir / f"baseline_{version_id}.parquet")
save_baseline(baseline_dir, df_scores, version_id) ==
    [v \in DOMAIN baseline_dir \cup {version_id} |->
        IF v = version_id THEN df_scores ELSE baseline_dir[v]]

DefaultTolerance == 5    \* tolerance = 5.0

\* df_scores.merge(baseline, on = ['ticker', 'date', 'block']) with the
\* column diff: the rows of the keys both tables hold
Merged(df_scores, baseline) ==
    [k \in DOMAIN df_scores \cap DOMAIN baseline |->
        [score_adjusted_new |-> df_scores[k].score_adjusted,
         score_adjusted_baseline |-> baseline[k].score_adjusted,
         diff |-> RSub(df_scores[k].score_adjusted, baseline[k].score_adjusted)]]

DiffEntry(k, row) ==
    [ticker |-> k[2], date |-> k[1], block |-> k[3],
     old_score |-> row.score_adjusted_baseline,
     new_score |-> row.score_adjusted_new,
     diff |-> row.diff]

DiffColumn(merged) == [k \in DOMAIN merged |-> merged[k].diff]

\* regressions listed when the score fell by the tolerance or more
Regressions_inclusive(merged, tolerance) ==
    {k \in DOMAIN merged : RLe(merged[k].diff, RNeg(tolerance))}

\* merged[merged['diff'] < -tolerance]: the keys
Regressions(merged, tolerance) ==
    {k \in DOMAIN merged : RLt(merged[k].diff, RNeg(tolerance))}

\* merged[merged['diff'] > tolerance]: the keys
Improvements(merged, tolerance) ==
    {k \in DOMAIN merged : RGt(merged[k].diff, tolerance)}

ComparisonReport(baseline_version, merged, regressions, improvements) ==
    [op |-> "compare_to_baseline",
     baseline_version |-> baseline_version,
     regressions |-> {DiffEntry(k, merged[k]) : k \in regressions},
     improvements |-> {DiffEntry(k, merged[k]) : k \in improvements},
     statistics |-> [total_comparisons |-> Cardinality(DOMAIN merged),
                     regressions_count |-> Cardinality(regressions),
                     improvements_count |-> Cardinality(improvements),
                     mean_diff |-> Mean(DiffColumn(merged))]]

CompareMerged(baseline_version, merged, tolerance) ==
    ComparisonReport(baseline_version, merged,
                     Regressions(merged, tolerance), Improvements(merged, tolerance))

BaselineNotFound(baseline_version) ==
    [op |-> "compare_to_baseline", error |-> "Baseline not found",
     baseline_version |-> baseline_version]

\* compare_to_baseline raising for a missing baseline, as load_version does
\* for a missing version
compare_to_baseline_raising(baseline_dir, df_scores, baseline_version, tolerance) ==
    IF baseline_version \notin DOMAIN baseline_dir
    THEN [op |-> "compare_to_baseline", error |-> "FileNotFoundError",
          baseline_version |-> baseline_version]
    ELSE CompareMerged(baseline_version,
                       Merged(df_scores, baseline_dir[baseline_version]),
                       tolerance)

compare_to_baseline(baseline_dir, df_scores, baseline_version, tolerance) ==
    IF baseline_version \notin DOMAIN baseline_dir
    THEN BaselineNotFound(baseline_version)
    ELSE CompareMerged(baseline_version,
                       Merged(df_scores, baseline_dir[baseline_version]),
                       tolerance)

\* ------------------------------------------------------------------------
\* run_full_pipeline (cli/main.py): the governance calls of one execution
\* ------------------------------------------------------------------------
\* a list stands for its text; tickers[:10] of more than ten tickers is not
\* the whole list
TickerList(tickers) ==
    PyValue("list", IF Len(tickers) > 10 THEN "the first ten tickers" ELSE "all tickers")

\* metadata = {'tickers': tickers[:10], 'date_range': [start_date, end_date]}
RunMetadata(tickers) ==
    PyDict(<<StrItem("tickers", TickerList(tickers)),
             StrItem("date_range", PyValue("list", "start_date, end_date"))>>)

\* the stages inside the try block, in order; the baseline is saved only
\* when requested
Stages ==
    <<"compute", "write_scores", "write_signals", "write_summary", "save_baseline",
      "log_run">>

NextStage(stage) == Stages[(CHOOSE i \in DOMAIN Stages : Stages[i] = stage) + 1]

RunCall(execution, status, metrics) ==
    [run_id |-> execution.run_id, version_id |-> execution.version_id,
     tickers |-> execution.tickers, date_range |-> execution.date_range,
     status |-> status, metrics |-> metrics]

\* metrics = {'signals_count': ..., 'scores_count': ..., 'validation': ...}
SuccessMetrics(df_scores) ==
    PyDict(<<StrItem("scores_count",
                     PyInt(IF DOMAIN df_scores = {} THEN "0" ELSE "some"))>>)

\* audit.log_run(..., status = 'success', metrics = {...})
LogSuccessCall(audit_dir, now, execution, df_scores) ==
    log_run(audit_dir, now, RunCall(execution, "success", SuccessMetrics(df_scores)))

\* an except branch that re-raises without logging
HandleException_unlogged(audit_dir, now, execution, error) == audit_dir

\* except Exception as e: audit.log_run(..., status = 'failed',
\* metrics = {'error': str(e)})
HandleException(audit_dir, now, execution, error) ==
    log_run(audit_dir, now,
            RunCall(execution, "failed", PyDict(<<StrItem("error", PyStr(error))>>)))

\* ------------------------------------------------------------------------
\* The pipeline (cli/main.py, layers 3 and 4) as a state machine
\* ------------------------------------------------------------------------
VARIABLES
    pc,              \* "signals" -> "normalized" -> "scored"
    config,          \* the loaded configuration
    df_signals,      \* raw signals: [<<signal_name, date, ticker>> -> value_raw]
    df_normalized,   \* normalized signals, the rows of normalize_all_signals
    df_risk,         \* risk metrics
    df_scores,       \* block scores, the rows of compute_all_scores
    quintiles,       \* the result of calculate_quintiles, by ticker
    version_dir,     \* the version files: [version_id -> file content]
    now,             \* the clock, in seconds
    saved,           \* the save_version calls made: version id returned, config
    returned,        \* the result of the last VersionManager call
    audit_dir,       \* the audit files: [run_id -> audit entry]
    logged,          \* the log_run calls made, in order: the entry of each
    baseline_dir,    \* the baseline files: [version_id -> score table]
    report,          \* the result of the last validator or comparison call
    files,           \* files written by concurrent writers: [name -> chunks]
    writers,         \* the concurrent writers: [process -> its position]
    run              \* one run_full_pipeline execution: its position

\* the variables of the scoring pipeline and those of the version store
pipeline == <<pc, config, df_signals, df_normalized, df_risk, df_scores, quintiles>>
versions == <<version_dir, now, saved, returned>>
governance == <<audit_dir, logged, baseline_dir, report, files, writers, run>>
governance_but_run == <<audit_dir, logged, baseline_dir, report, files, writers>>
vars == <<pipeline, versions, governance>>

\* no VersionManager call made yet
NoResult == [op |-> "none"]
NoVersions ==
    /\ version_dir = Empty
    /\ now = 0
    /\ saved = <<>>
    /\ returned = NoResult

\* no audit record, no baseline, no report, no writer and no run yet
NoGovernance ==
    /\ audit_dir = Empty
    /\ logged = <<>>
    /\ baseline_dir = Empty
    /\ report = NoResult
    /\ files = Empty
    /\ writers = Empty
    /\ run = NoResult
NoRisk == [columns |-> {}, rows |-> Empty]   \* pd.DataFrame(columns=['ticker','date'])

Weight(k) == Rat(k, 5)                        \* weights in fifths
SigCfg(w, d) == [weight |-> Weight(w), direction |-> d]
NoBlock == [signals |-> Empty, subblocks |-> Empty]

MkConfig(use_robust, contrarian, turnaround, quality, soft_penalties) ==
    [use_robust |-> use_robust,
     blocks |-> [b \in {"contrarian", "turnaround", "piotroski", "quality"} |->
                    CASE b = "contrarian" -> [signals |-> contrarian, subblocks |-> Empty]
                      [] b = "turnaround" -> [signals |-> turnaround, subblocks |-> Empty]
                      [] b = "piotroski" -> NoBlock
                      [] b = "quality" -> [signals |-> Empty, subblocks |-> quality]],
     soft_penalties |-> soft_penalties]

\* --- raw signals of one signal on one date, to be normalized: the rows of
\* the first n entities, each with a value or NaN --------------------------
RawValues == {NaN} \cup {RInt(v) : v \in 0..MaxRaw}
Directions == {1, -1}

NormalizerConfigs ==
    {MkConfig(r, Empty, Empty, Empty, Empty) : r \in BOOLEAN}
    \cup {MkConfig(r, [n \in {"A"} |-> SigCfg(3, d)], Empty, Empty, Empty) :
            r \in BOOLEAN, d \in Directions}
    \cup {MkConfig(r, Empty, Empty,
                   [sb \in {"structural"} |->
                        [weight |-> Weight(3), signals |-> [n \in {"A"} |-> SigCfg(3, d)]]],
                   Empty) :
            r \in BOOLEAN, d \in Directions}

InitRaw ==
    /\ pc = "signals"
    /\ config \in NormalizerConfigs
    /\ \E n \in 0..Len(EntityOrder) :
          df_signals \in [{<<"A", ScoreDate, EntityOrder[i]>> : i \in 1..n} -> RawValues]
    /\ df_normalized = Empty
    /\ df_risk = NoRisk
    /\ df_scores = Empty
    /\ quintiles = Empty
    /\ NoVersions
    /\ NoGovernance

\* --- normalized signals of one entity, to be aggregated -------------------
Target == "E1"
NormValues == {NaN, RInt(0), RInt(80), RInt(100)}
Row(v) == [value_normalized |-> v]

\* contrarian {A, B}; turnaround {C}; quality {structural {A, B}, financial {C}}
\* (signal weights wA, wB, wC and sub-block weights w1, w2, in fifths; a
\* weight of 0 is what cfg.get('weight', 0) gives an entry without one)
WeightsConfig(wA, wB, wC, w1, w2, soft_penalties) ==
    MkConfig(TRUE,
             "A" :> SigCfg(wA, 1) @@ "B" :> SigCfg(wB, 1),
             "C" :> SigCfg(wC, 1),
             "structural" :> [weight |-> Weight(w1),
                              signals |-> "A" :> SigCfg(wA, 1) @@ "B" :> SigCfg(wB, 1)]
             @@ "financial" :> [weight |-> Weight(w2),
                                signals |-> "C" :> SigCfg(wC, 1)],
             soft_penalties)

MetricUnit == <<1, 100000>>      \* one metric step
Metric(k) == IF k > MaxMetric THEN NaN ELSE RMul(RInt(k), MetricUnit)
MaxPenaltyDefault == 10          \* penalty_config.get('max_penalty', 10)
ThresholdDefault == 90           \* penalty_config.get('threshold_percentile', 90)

Rule(affected, pct, maxpen) ==
    [affected_scores |-> affected, threshold_percentile |-> pct,
     max_penalty |-> RInt(maxpen)]

\* one rule for every block; the target holds the largest metric of its date
FixedRisk ==
    [columns |-> {"R1"},
     rows |-> [k \in {<<ScoreDate, e>> : e \in Entities} |->
                  [c \in {"R1"} |->
                      CASE k[2] = "E1" -> Metric(3)
                        [] k[2] = "E2" -> Metric(0)
                        [] k[2] = "E3" -> Metric(1)
                        [] k[2] = "E4" -> Metric(2)]]]
FixedRules == "R1" :> Rule({"all"}, ThresholdDefault, MaxPenaltyDefault)

InitWeights ==
    /\ pc = "normalized"
    /\ df_signals = Empty
    /\ \E S \in SUBSET Signals :
          df_normalized \in [{<<n, ScoreDate, Target>> : n \in S} -> {Row(v) : v \in NormValues}]
    /\ \E wA, wB \in 0..MaxWeight, w1, w2 \in {0, 1, MaxWeight} :
          config = WeightsConfig(wA, wB, 1, w1, w2, FixedRules)
    /\ df_risk = FixedRisk
    /\ df_scores = Empty
    /\ quintiles = Empty
    /\ NoVersions
    /\ NoGovernance

\* --- risk metrics and penalty rules ---------------------------------------
\* R1 (max_penalty 10) on contrarian or on every block; R2 (max_penalty 5)
\* on quality or on every block.  The R1 metrics of two other entities in
\* non-decreasing order (the code reads them only as a column), the third
\* and the R2 metrics fixed; the target's row and the R2 column may be
\* missing.
InitRisk ==
    /\ pc = "normalized"
    /\ df_signals = Empty
    /\ \E v \in NormValues :
          df_normalized = [k \in {<<"A", ScoreDate, Target>>} |-> Row(v)]
    /\ \E a1 \in {{"contrarian"}, {"all"}}, p1 \in {50, ThresholdDefault},
          a2 \in {{"quality"}, {"all"}} :
          config = WeightsConfig(3, 2, 1, 1, 1,
                                 "R1" :> Rule(a1, p1, MaxPenaltyDefault)
                                 @@ "R2" :> Rule(a2, 50, 5))
    /\ \E cols \in {{"R1"}, {"R1", "R2"}}, hasTarget \in BOOLEAN,
          t1 \in 0..(MaxMetric + 1), t2 \in {0, MaxMetric, MaxMetric + 1},
          o3, o4 \in 0..(MaxMetric + 1) :
          /\ o3 <= o4
          /\ ~hasTarget => (t1 = 0 /\ t2 = 0)
          /\ "R2" \notin cols => t2 = 0
          /\ df_risk =
               [columns |-> cols,
                rows |-> [k \in {<<ScoreDate, e>> :
                                   e \in IF hasTarget THEN Entities
                                         ELSE Entities \ {Target}} |->
                     [c \in cols |->
                        IF c = "R1"
                        THEN CASE k[2] = "E1" -> Metric(t1)
                               [] k[2] = "E2" -> Metric(0)
                               [] k[2] = "E3" -> Metric(o3)
                               [] k[2] = "E4" -> Metric(o4)
                        ELSE CASE k[2] = "E1" -> Metric(t2)
                               [] k[2] = "E2" -> Metric(0)
                               [] k[2] = "E3" -> Metric(1)
                               [] k[2] = "E4" -> Metric(2)]]]
    /\ df_scores = Empty
    /\ quintiles = Empty
    /\ NoVersions
    /\ NoGovernance

\* --- raw signals on two dates and of two signals --------------------------
\* signal A on ScoreDate for three entities, together with observations of
\* another date or another signal (or none)
OtherDate == "2024-02-29"
OtherValues == {RInt(0), RInt(MaxRaw)}

OtherKeySets ==
    {{},
     {<<"A", OtherDate, "E1">>, <<"A", OtherDate, "E2">>},
     {<<"B", ScoreDate, "E1">>, <<"B", ScoreDate, "E2">>},
     {<<"A", OtherDate, "E1">>, <<"B", ScoreDate, "E1">>}}

\* A with direction 1 in contrarian, B with direction -1 in turnaround
DatesConfig(use_robust) ==
    MkConfig(use_robust, "A" :> SigCfg(3, 1), "B" :> SigCfg(2, -1), Empty, Empty)

InitDates ==
    /\ pc = "signals"
    /\ \E r \in BOOLEAN : config = DatesConfig(r)
    /\ \E K \in OtherKeySets :
          \E base \in [{<<"A", ScoreDate, EntityOrder[i]>> : i \in 1..3} -> RawValues],
             other \in [K -> OtherValues] :
              df_signals = base @@ other
    /\ df_normalized = Empty
    /\ df_risk = NoRisk
    /\ df_scores = Empty
    /\ quintiles = Empty
    /\ NoVersions
    /\ NoGovernance

\* --- block scores before the quintiles --------------------------------------
\* tickers are numbered; the contrarian (reference) scores are drawn freely
\* and the blocks without signals are undefined; the table is either one
\* date with every quality score defined, or two dates with the quality
\* score of ticker 1 undefined
ScoreValues == {NaN} \cup {RInt(v) : v \in {0, 1, 2, 30}}

PlainRow(score) ==
    [score_raw |-> score, score_adjusted |-> score,
     penalties |-> Empty, subblock_scores |-> Empty]

QualityScore == RInt(50)

BlockScoreOf(block, ticker, ref, quality_gap) ==
    CASE block = "contrarian" -> ref[ticker]
      [] block = "quality" -> IF quality_gap /\ ticker = 1 THEN NaN ELSE QualityScore
      [] OTHER -> NaN

ScoreTable(date, ref, quality_gap) ==
    [k \in {<<date, t, BlockNames[b]>> : t \in DOMAIN ref, b \in DOMAIN BlockNames} |->
        PlainRow(BlockScoreOf(k[3], k[2], ref, quality_gap))]

OtherDateScores == <<RInt(2), RInt(30)>>

ScoredConfig ==
    MkConfig(TRUE, "A" :> SigCfg(3, 1), Empty, "B" :> SigCfg(2, 1), Empty)

InitScores ==
    /\ pc = "scored"
    /\ config = ScoredConfig
    /\ df_signals = Empty
    /\ df_normalized = Empty
    /\ df_risk = NoRisk
    /\ \E n \in 1..MaxTickers, wide \in BOOLEAN :
          \E ref \in [1..n -> ScoreValues] :
              df_scores = ScoreTable(ScoreDate, ref, wide)
                          @@ (IF wide
                              THEN ScoreTable(OtherDate, OtherDateScores, FALSE)
                              ELSE Empty)
    /\ quintiles = Empty
    /\ NoVersions
    /\ NoGovernance

\* --- a column of distinct scores -----------------------------------------------
\* count distinct reference scores 1..count in ascending, descending or
\* interleaved order of the tickers, followed or not by an entity without
\* a score
SeriesOrders == {"ascending", "descending", "interleaved"}

DistinctScore(order, count, t) ==
    CASE order = "ascending" -> RInt(t)
      [] order = "descending" -> RInt(count + 1 - t)
      [] order = "interleaved" ->
            IF t % 2 = 1 THEN RInt((t + 1) \div 2) ELSE RInt(count + 1 - (t \div 2))

DistinctScores(order, count, gap) ==
    [t \in 1..(IF gap THEN count + 1 ELSE count) |->
        IF t > count THEN NaN ELSE DistinctScore(order, count, t)]

InitSeries ==
    /\ pc = "scored"
    /\ config = ScoredConfig
    /\ df_signals = Empty
    /\ df_normalized = Empty
    /\ df_risk = NoRisk
    /\ \E count \in 1..MaxCount, order \in SeriesOrders, gap \in BOOLEAN :
          df_scores = ScoreTable(ScoreDate, DistinctScores(order, count, gap), FALSE)
    /\ quintiles = Empty
    /\ NoVersions
    /\ NoGovernance

\* --- the version store ------------------------------------------------------
\* configurations: the same content in two key orders, flat and nested, and
\* a configuration keyed by a number
ConfigXY == PyDict(<<StrItem("x", PyInt("1")), StrItem("y", PyInt("2"))>>)
ConfigYX == PyDict(<<StrItem("y", PyInt("2")), StrItem("x", PyInt("1"))>>)
Inner(first, second) ==
    PyDict(<<StrItem(first, PyInt(IF first = "a" THEN "1" ELSE "2")),
             StrItem(second, PyInt(IF second = "a" THEN "1" ELSE "2"))>>)
ConfigNested == PyDict(<<StrItem("x", PyInt("1")), StrItem("y", Inner("a", "b"))>>)
ConfigNestedSwapped == PyDict(<<StrItem("x", PyInt("1")), StrItem("y", Inner("b", "a"))>>)
ConfigIntKey == PyDict(<<Item(PyKey("int", "1"), PyStr("a"))>>)

Configs == {ConfigXY, ConfigYX, ConfigNested, ConfigNestedSwapped, ConfigIntKey}

\* the optional arguments of a call: version_name and metadata
NoMetadata == PyValue("NoneType", "None")
SaveArguments ==
    {[version_name |-> NoName, metadata |-> NoMetadata],
     [version_name |-> NoName, metadata |-> PyDict(<<StrItem("a", PyStr("b"))>>)],
     [version_name |-> "v1", metadata |-> NoMetadata]}

InitVersions ==
    /\ pc = "versions"
    /\ config = Empty
    /\ df_signals = Empty
    /\ df_normalized = Empty
    /\ df_risk = NoRisk
    /\ df_scores = Empty
    /\ quintiles = Empty
    /\ NoVersions
    /\ NoGovernance

\* --- the audit trail ---------------------------------------------------------
\* run ids, and the calls of a run: a 'success' record of one ticker without
\* metrics or with some, and a 'failed' record of eleven tickers with the
\* error as metrics
RunIds == {"r1", "r2"}
AuditVersion == VersionId(NoName, 0, compute_config_hash(ConfigXY))
AuditDates == <<ScoreDate, OtherDate>>
ElevenTickers == [i \in 1..11 |-> i]

LogRunArguments ==
    {[tickers |-> <<1>>, status |-> "success", metrics |-> NoMetadata],
     [tickers |-> <<1>>, status |-> "success",
      metrics |-> PyDict(<<StrItem("a", PyInt("1"))>>)],
     [tickers |-> ElevenTickers, status |-> "failed",
      metrics |-> PyDict(<<StrItem("a", PyStr("b"))>>)]}

LogRunCall(run_id, args) ==
    [run_id |-> run_id, version_id |-> AuditVersion, tickers |-> args.tickers,
     date_range |-> AuditDates, status |-> args.status, metrics |-> args.metrics]

InitAudit ==
    /\ pc = "audit"
    /\ config = Empty
    /\ df_signals = Empty
    /\ df_normalized = Empty
    /\ df_risk = NoRisk
    /\ df_scores = Empty
    /\ quintiles = Empty
    /\ NoVersions
    /\ NoGovernance

\* --- two writers ---------------------------------------------------------------
\* two processes, each making one save_version or one log_run call
Writers == {1, 2}
WriterConfigs == {ConfigXY, ConfigNested}
NotStarted == [pc |-> "start", name |-> NoResult, blocks |-> <<>>, offset |-> 0]

InitWriters ==
    /\ pc = "writers"
    /\ config = Empty
    /\ df_signals = Empty
    /\ df_normalized = Empty
    /\ df_risk = NoRisk
    /\ df_scores = Empty
    /\ quintiles = Empty
    /\ NoVersions
    /\ audit_dir = Empty
    /\ logged = <<>>
    /\ baseline_dir = Empty
    /\ report = NoResult
    /\ files = Empty
    /\ writers = [p \in Writers |-> NotStarted]
    /\ run = NoResult

\* --- tables to validate and to compare -------------------------------------------
\* a table of contrarian scores around the expected range, with a turnaround
\* block that is entirely null and no quintile column; the baseline store is
\* empty or holds one baseline: of the contrarian scores of the entities
\* 1..n+1, which lie around the tolerance from those of the table, or of
\* another date
CurrentValues == {NaN, RInt(-1), RInt(0), RInt(100), RInt(101)}
BaselineValues == {NaN, RInt(5), RInt(95)}
BaselineVersion == SavedVersionId(0, ConfigXY, NoName)
OwnVersion == SavedVersionId(1, ConfigXY, NoName)

BlockTable(date, block, scores) ==
    [k \in {<<date, t, block>> : t \in DOMAIN scores} |-> PlainRow(scores[k[2]])]

WiderBaseline(n, base) ==
    [k \in {<<ScoreDate, t, "contrarian">> : t \in 1..(n + 1)} |->
        PlainRow(IF k[2] > n THEN RInt(5) ELSE base[k[2]])]

Baselines(n) ==
    {WiderBaseline(n, base) : base \in [1..n -> BaselineValues]}
    \cup {BlockTable(OtherDate, "contrarian", <<RInt(5)>>)}

InitScoreTable ==
    /\ pc = "validate"
    /\ config = ScoredConfig
    /\ df_signals = Empty
    /\ df_normalized = Empty
    /\ df_risk = NoRisk
    /\ \E n \in 1..MaxScored :
          /\ \E current \in [1..n -> CurrentValues] :
                df_scores = BlockTable(ScoreDate, "contrarian", current)
                            @@ BlockTable(ScoreDate, "turnaround", [t \in 1..n |-> NaN])
          /\ \/ baseline_dir = Empty
             \/ \E baseline \in Baselines(n) :
                   baseline_dir = [v \in {BaselineVersion} |-> baseline]
    /\ quintiles = Empty
    /\ NoVersions
    /\ audit_dir = Empty
    /\ logged = <<>>
    /\ report = NoResult
    /\ files = Empty
    /\ writers = Empty
    /\ run = NoResult

\* a table of 1..MaxRows rows with a quintile column: the quintiles (0 for an
\* undefined one) in non-decreasing order of the tickers
QuintileRow(score, quintile) ==
    [score_raw |-> score, score_adjusted |-> score, penalties |-> Empty,
     subblock_scores |-> Empty, quintile |-> quintile]

QuintileTable(codes) ==
    [k \in {<<ScoreDate, t, "contrarian">> : t \in DOMAIN codes} |->
        QuintileRow(QualityScore, IF codes[k[2]] = 0 THEN NaN ELSE RInt(codes[k[2]]))]

InitQuintileTable ==
    /\ pc = "validate"
    /\ config = ScoredConfig
    /\ df_signals = Empty
    /\ df_normalized = Empty
    /\ df_risk = NoRisk
    /\ \E n \in 1..MaxRows :
          \E codes \in [1..n -> 0..5] :
              /\ \A t \in 1..(n - 1) : codes[t] <= codes[t + 1]
              /\ df_scores = QuintileTable(codes)
    /\ quintiles = Empty
    /\ NoVersions
    /\ NoGovernance

InitValidate == InitScoreTable \/ InitQuintileTable

\* --- one execution of run_full_pipeline ----------------------------------------------
\* the arguments of the call; the audit store is empty or holds the record
\* of an earlier execution
RunScores == BlockTable(ScoreDate, "contrarian", <<RInt(0), RInt(100)>>)

EarlierRecord ==
    AuditFile(audit_entry(0, LogRunCall("r1", [tickers |-> <<1>>, status |-> "success",
                                               metrics |-> NoMetadata])))

NotSaved == [version_name |-> "none", timestamp |-> 0, config_hash |-> [digest_of |-> ""]]

InitRun ==
    /\ pc = "run"
    /\ config \in WriterConfigs
    /\ df_signals = Empty
    /\ df_normalized = Empty
    /\ df_risk = NoRisk
    /\ df_scores = Empty
    /\ quintiles = Empty
    /\ NoVersions
    /\ audit_dir \in {Empty, [f \in {"r1"} |-> EarlierRecord]}
    /\ logged = <<>>
    /\ baseline_dir = Empty
    /\ report = NoResult
    /\ files = Empty
    /\ writers = Empty
    /\ \E tickers \in {<<1>>, ElevenTickers}, version_name \in {NoName, "v1"},
          requested \in BOOLEAN :
          run = [pc |-> "start", run_id |-> "", version_id |-> NotSaved,
                 tickers |-> tickers, date_range |-> AuditDates,
                 version_name |-> version_name,
                 save_baseline |-> requested, completed |-> {}, error |-> ""]

Init == InitRaw \/ InitWeights \/ InitRisk

NormalizeAllSignals ==
    /\ pc = "signals"
    /\ df_normalized' = normalize_all_signals(df_signals, config)
    /\ pc' = "normalized"
    /\ UNCHANGED <<config, df_signals, df_risk, df_scores, quintiles, versions, governance>>

ComputeAllScores ==
    /\ pc = "normalized"
    /\ df_scores' = compute_all_scores(df_normalized, df_risk, config)
    /\ pc' = "scored"
    /\ UNCHANGED <<config, df_signals, df_normalized, df_risk, quintiles, versions, governance>>

\* main.py line 159
AddQuintiles ==
    /\ pc = "scored"
    /\ df_scores' = add_quintiles(df_scores, "contrarian")
    /\ pc' = "quintiles"
    /\ UNCHANGED <<config, df_signals, df_normalized, df_risk, quintiles, versions, governance>>

\* the reference scores of ScoreDate as one column, by ticker
ScoreSeries ==
    [t \in {k[2] : k \in {r \in DOMAIN df_scores :
                            r[1] = ScoreDate /\ r[3] = "contrarian"}} |->
        df_scores[<<ScoreDate, t, "contrarian">>].score_adjusted]

\* recalculate_quintiles.py, main: one column of scores recalculated
CalculateQuintiles ==
    /\ pc \in {"scored", "quintiles"}
    /\ quintiles = Empty
    /\ quintiles' = calculate_quintiles(ScoreSeries)
    /\ UNCHANGED <<pc, config, df_signals, df_normalized, df_risk, df_scores, versions, governance>>

\* a second passes
Tick ==
    /\ pc \in {"versions", "audit", "writers"}
    /\ now < MaxClock
    /\ now' = now + 1
    /\ UNCHANGED <<pipeline, version_dir, saved, returned, governance>>

SaveVersion ==
    /\ pc = "versions"
    /\ Len(saved) < MaxSaves
    /\ \E c \in Configs, args \in SaveArguments :
          /\ version_dir' = save_version(version_dir, now, c,
                                         args.version_name, args.metadata)
          /\ returned' = [op |-> "save_version",
                          value |-> SavedVersionId(now, c, args.version_name)]
          /\ saved' = Append(saved,
                             [version_id |-> SavedVersionId(now, c, args.version_name),
                              config |-> c])
    /\ UNCHANGED <<pipeline, now, governance>>

\* a version id is loaded: one a save_version call returned, or the id of
\* the unnamed version of ConfigXY of this second, saved or not
LoadVersion ==
    /\ pc = "versions"
    /\ \E v \in {saved[i].version_id : i \in DOMAIN saved}
               \cup {SavedVersionId(now, ConfigXY, NoName)} :
          returned' = [op |-> "load_version", value |-> load_version(version_dir, v)]
    /\ UNCHANGED <<pipeline, version_dir, now, saved, governance>>

ListVersions ==
    /\ pc = "versions"
    /\ returned' = [op |-> "list_versions", value |-> list_versions(version_dir)]
    /\ UNCHANGED <<pipeline, version_dir, now, saved, governance>>

\* one log_run call of an AuditLogger
LogRun ==
    /\ pc = "audit"
    /\ Len(logged) < MaxCalls
    /\ \E run_id \in RunIds, args \in LogRunArguments :
          /\ audit_dir' = log_run(audit_dir, now, LogRunCall(run_id, args))
          /\ logged' = Append(logged,
                              AuditFile(audit_entry(now, LogRunCall(run_id, args))))
    /\ UNCHANGED <<pipeline, versions, baseline_dir, report, files, writers, run>>

\* a process enters save_version: the record and the file name are computed
\* and the file is opened
Opened(name, blocks) == [pc |-> "writing", name |-> name, blocks |-> blocks, offset |-> 0]

SaveVersionOpen(p) ==
    /\ pc = "writers"
    /\ writers[p].pc = "start"
    /\ \E c \in WriterConfigs, args \in SaveArguments :
          /\ writers' = [writers EXCEPT ![p] =
                Opened(SavedVersionId(now, c, args.version_name),
                       VersionBlocks(VersionData(c, args.version_name, args.metadata,
                                                 compute_config_hash(c), now)))]
          /\ files' = OpenTruncate(files, SavedVersionId(now, c, args.version_name))
    /\ UNCHANGED <<pipeline, versions, audit_dir, logged, baseline_dir, report, run>>

\* a process enters log_run
LogRunOpen(p) ==
    /\ pc = "writers"
    /\ writers[p].pc = "start"
    /\ \E run_id \in RunIds, args \in LogRunArguments :
          /\ writers' = [writers EXCEPT ![p] =
                Opened([run_id |-> run_id],
                       AuditBlocks(audit_entry(now, LogRunCall(run_id, args))))]
          /\ files' = OpenTruncate(files, [run_id |-> run_id])
    /\ UNCHANGED <<pipeline, versions, audit_dir, logged, baseline_dir, report, run>>

\* the buffer of the process is written to its file
WriteBlock(p) ==
    /\ pc = "writers"
    /\ writers[p].pc = "writing"
    /\ writers[p].offset < Len(writers[p].blocks)
    /\ files' = [files EXCEPT ![writers[p].name] =
                    WriteAt(@, writers[p].offset, writers[p].blocks[writers[p].offset + 1])]
    /\ writers' = [writers EXCEPT ![p].offset = @ + 1]
    /\ UNCHANGED <<pipeline, versions, audit_dir, logged, baseline_dir, report, run>>

\* the file is closed and the call returns
CloseFile(p) ==
    /\ pc = "writers"
    /\ writers[p].pc = "writing"
    /\ writers[p].offset = Len(writers[p].blocks)
    /\ writers' = [writers EXCEPT ![p].pc = "done"]
    /\ UNCHANGED <<pipeline, versions, audit_dir, logged, baseline_dir, report, files, run>>

\* main.py line 169
ValidateScores ==
    /\ pc = "validate"
    /\ report' = validate_scores(df_scores, RInt(ExpectedMin), RInt(ExpectedMax))
    /\ UNCHANGED <<pipeline, versions, audit_dir, logged, baseline_dir, files, writers, run>>

\* main.py line 172
ValidateQuintileDistribution ==
    /\ pc = "validate"
    /\ report' = validate_quintile_distribution(df_scores, ExpectedPct, QuintileTolerance)
    /\ UNCHANGED <<pipeline, versions, audit_dir, logged, baseline_dir, files, writers, run>>

\* main.py lines 201 to 203: the scores saved as the baseline of this version
SaveBaseline ==
    /\ pc = "validate"
    /\ baseline_dir' = save_baseline(baseline_dir, df_scores, OwnVersion)
    /\ UNCHANGED <<pipeline, versions, audit_dir, logged, report, files, writers, run>>

\* the scores compared to the baseline of a version, stored or not
CompareToBaseline ==
    /\ pc = "validate"
    /\ \E baseline_version \in {BaselineVersion, OwnVersion} :
          report' = compare_to_baseline(baseline_dir, df_scores, baseline_version,
                                        RInt(DefaultTolerance))
    /\ UNCHANGED <<pipeline, versions, audit_dir, logged, baseline_dir, files, writers, run>>

\* load_config raises: the call ends before save_version
LoadConfigRaises ==
    /\ pc = "run"
    /\ run.pc = "start"
    /\ run' = [run EXCEPT !.pc = "raised", !.error = "load_config"]
    /\ UNCHANGED <<pipeline, versions, audit_dir, logged, baseline_dir, report,
                   files, writers>>

\* main.py lines 66 to 82: the run id is drawn, the configuration loaded and
\* its version saved
SaveRunVersion ==
    /\ pc = "run"
    /\ run.pc = "start"
    /\ \E run_id \in RunIds :
          run' = [run EXCEPT !.pc = "compute", !.run_id = run_id,
                             !.version_id = SavedVersionId(now, config, run.version_name)]
    /\ version_dir' = save_version(version_dir, now, config, run.version_name,
                                   RunMetadata(run.tickers))
    /\ UNCHANGED <<pipeline, now, saved, returned, governance_but_run>>

\* main.py lines 84 to 173: the layers from data loading to validation
ComputeStage ==
    /\ pc = "run"
    /\ run.pc = "compute"
    /\ df_scores' = RunScores
    /\ run' = [run EXCEPT !.pc = NextStage(@), !.completed = @ \cup {"compute"}]
    /\ UNCHANGED <<pc, config, df_signals, df_normalized, df_risk, quintiles,
                   versions, governance_but_run>>

\* main.py lines 178 to 199: one of the three output files is written
WriteOutput ==
    /\ pc = "run"
    /\ run.pc \in {"write_scores", "write_signals", "write_summary"}
    /\ files' = [f \in DOMAIN files \cup {<<run.pc, run.run_id>>} |->
                    IF f = <<run.pc, run.run_id>> THEN df_scores ELSE files[f]]
    /\ run' = [run EXCEPT !.pc = NextStage(@), !.completed = @ \cup {run.pc}]
    /\ UNCHANGED <<pipeline, versions, audit_dir, logged, baseline_dir, report, writers>>

\* main.py lines 201 to 203: the baseline is saved if requested
SaveRunBaseline ==
    /\ pc = "run"
    /\ run.pc = "save_baseline"
    /\ baseline_dir' = IF run.save_baseline
                       THEN save_baseline(baseline_dir, df_scores, run.version_id)
                       ELSE baseline_dir
    /\ run' = [run EXCEPT !.pc = NextStage(@), !.completed = @ \cup {"save_baseline"}]
    /\ UNCHANGED <<pipeline, versions, audit_dir, logged, report, files, writers>>

\* main.py lines 205 to 221: the run is logged and the scores returned
LogSuccess ==
    /\ pc = "run"
    /\ run.pc = "log_run"
    /\ audit_dir' = LogSuccessCall(audit_dir, now, run, df_scores)
    /\ logged' = Append(logged, LogSuccessCall(audit_dir, now, run, df_scores)[run.run_id])
    /\ run' = [run EXCEPT !.pc = "returned", !.completed = @ \cup {"log_run"}]
    /\ UNCHANGED <<pipeline, versions, baseline_dir, report, files, writers>>

\* main.py lines 223 to 233: a stage before the success record raises an
\* Exception: the failure is logged and the exception raised again
StageRaises ==
    /\ pc = "run"
    /\ run.pc \in Range(Stages) \ {"log_run"}
    /\ run.pc = "save_baseline" => run.save_baseline
    /\ audit_dir' = HandleException(audit_dir, now, run, run.pc)
    /\ logged' = IF run.run_id \in DOMAIN audit_dir'
                 THEN Append(logged, audit_dir'[run.run_id]) ELSE logged
    /\ run' = [run EXCEPT !.pc = "raised", !.error = run.pc]
    /\ UNCHANGED <<pipeline, versions, baseline_dir, report, files, writers>>

Next == NormalizeAllSignals \/ ComputeAllScores

Spec == Init /\ [][Next]_vars

\* the pipeline on raw signals of two dates and two signals
SpecDates == InitDates /\ [][Next]_vars

\* the two quintile methods on one table of block scores
NextQuintiles == AddQuintiles \/ CalculateQuintiles

SpecQuintiles == InitScores /\ [][NextQuintiles]_vars

\* the percentile-rank method on columns of distinct scores
NextRank == CalculateQuintiles

SpecRank == InitSeries /\ [][NextRank]_vars

\* the calls of one VersionManager, in any order and at any time
NextVersions == Tick \/ SaveVersion \/ LoadVersion \/ ListVersions

SpecVersions == InitVersions /\ [][NextVersions]_vars

\* the log_run calls of one AuditLogger, in any order and at any time
NextAudit == Tick \/ LogRun

SpecAudit == InitAudit /\ [][NextAudit]_vars

\* two processes writing governance files at the same time
NextWriters ==
    \/ Tick
    \/ \E p \in Writers : SaveVersionOpen(p)
    \/ \E p \in Writers : LogRunOpen(p)
    \/ \E p \in Writers : WriteBlock(p)
    \/ \E p \in Writers : CloseFile(p)

SpecWriters == InitWriters /\ [][NextWriters]_vars

\* the validators and the regression tester on one table of scores
NextValidate ==
    ValidateScores \/ ValidateQuintileDistribution \/ SaveBaseline \/ CompareToBaseline

SpecValidate == InitValidate /\ [][NextValidate]_vars

\* one execution of run_full_pipeline, any stage of which may raise
NextRun ==
    \/ LoadConfigRaises
    \/ SaveRunVersion
    \/ ComputeStage
    \/ WriteOutput
    \/ SaveRunBaseline
    \/ LogSuccess
    \/ StageRaises

SpecRun == InitRun /\ [][NextRun]_vars

\* ------------------------------------------------------------------------
\* Properties
\* ------------------------------------------------------------------------
Scored == pc = "scored"

\* the configured signals of a weight map with a defined value_normalized
\* for (date, ticker) in df_normalized
PresentSignals(weights, date, ticker) ==
    {n \in DOMAIN weights :
        /\ <<n, date, ticker>> \in DOMAIN df_normalized
        /\ NotNa(df_normalized[<<n, date, ticker>>].value_normalized)}

PresentWeight(weights, date, ticker) ==
    SumOver(weights, PresentSignals(weights, date, ticker))

PresentWeightedSum(weights, date, ticker) ==
    LET P == PresentSignals(weights, date, ticker)
    IN  SumOver([n \in P |-> RMul(df_normalized[<<n, date, ticker>>].value_normalized,
                                  weights[n])], P)

\* x is the average of the present signals under the weight map: x times
\* their total weight is their weighted sum (undefined when they weigh 0)
IsPresentAverage(x, weights, date, ticker) ==
    IF PresentWeight(weights, date, ticker) = Zero
    THEN IsNaN(x)
    ELSE /\ NotNa(x)
         /\ RMul(x, PresentWeight(weights, date, ticker))
              = PresentWeightedSum(weights, date, ticker)

FlatBlocks == {"contrarian", "turnaround"}

\* C1: the score of a block is sum(value * weight) / sum(weight) over the
\* configured signals that have a defined value_normalized for the entity
\* and date; a configured signal that is absent or undefined contributes to
\* neither sum, so the weights are renormalized over the present signals.
C1_RenormalizedOverPresent ==
    Scored =>
        \A k \in DOMAIN df_scores :
            k[3] \in FlatBlocks =>
                IsPresentAverage(df_scores[k].score_raw,
                                 SignalWeights(config.blocks[k[3]].signals),
                                 k[1], k[2])

\* weights {A: 0.6, B: 0.4}, A present with 80 and B not: the score is 80
C1_Witness ==
    /\ Scored
    /\ <<ScoreDate, Target, "contrarian">> \in DOMAIN df_scores
    /\ SignalWeights(config.blocks["contrarian"].signals)
         = ("A" :> Rat(3, 5) @@ "B" :> Rat(2, 5))
    /\ PresentSignals(SignalWeights(config.blocks["contrarian"].signals),
                      ScoreDate, Target) = {"A"}
    /\ df_normalized[<<"A", ScoreDate, Target>>].value_normalized = RInt(80)
    /\ df_scores[<<ScoreDate, Target, "contrarian">>].score_raw = RInt(80)

\* every signal a block configures, directly or in a sub-block
ConfiguredSignals(block) ==
    DOMAIN config.blocks[block].signals
    \cup UNION {DOMAIN config.blocks[block].subblocks[sb].signals :
                  sb \in DOMAIN config.blocks[block].subblocks}

NoSignalPresent(block, date, ticker) ==
    \A n \in ConfiguredSignals(block) :
        \/ <<n, date, ticker>> \notin DOMAIN df_normalized
        \/ IsNaN(df_normalized[<<n, date, ticker>>].value_normalized)

SignalBlocks == {"contrarian", "turnaround", "quality"}

\* C2: when none of the signals a block configures has a defined normalized
\* value for the entity and date, score_raw is undefined (not 0, not 50),
\* and apply_risk_penalties hands it back undefined with no penalty
\* recorded.
C2_NoSignalUndefined ==
    Scored =>
        \A k \in DOMAIN df_scores :
            (k[3] \in SignalBlocks /\ NoSignalPresent(k[3], k[1], k[2])) =>
                /\ IsNaN(df_scores[k].score_raw)
                /\ IsNaN(df_scores[k].score_adjusted)
                /\ df_scores[k].penalties = {}

\* A and B are configured with positive weights and have no defined value,
\* while the rule for every block fires on the entity's turnaround score
C2_Witness ==
    /\ Scored
    /\ <<ScoreDate, Target, "contrarian">> \in DOMAIN df_scores
    /\ NoSignalPresent("contrarian", ScoreDate, Target)
    /\ \A n \in {"A", "B"} :
          /\ n \in DOMAIN config.blocks["contrarian"].signals
          /\ RGt(config.blocks["contrarian"].signals[n].weight, Zero)
    /\ <<"A", ScoreDate, Target>> \in DOMAIN df_normalized
    /\ df_scores[<<ScoreDate, Target, "turnaround">>].penalties # {}
    /\ IsNaN(df_scores[<<ScoreDate, Target, "contrarian">>].score_adjusted)
    /\ df_scores[<<ScoreDate, Target, "contrarian">>].penalties = {}

\* the sub-blocks of the quality block with a defined score in a row
DefinedSubblocks(row) ==
    {sb \in DOMAIN row.subblock_scores : NotNa(row.subblock_scores[sb])}

SubblockWeight(sb) == config.blocks["quality"].subblocks[sb].weight

DefinedSubblockWeight(row) ==
    SumOver([sb \in DefinedSubblocks(row) |-> SubblockWeight(sb)],
            DefinedSubblocks(row))

QualityRows == {k \in DOMAIN df_scores : k[3] = "quality"}

\* C3 as stated, its last sentence: the quality score is undefined only
\* when every sub-block score is undefined.
C3_UndefinedOnlyWhenAllUndefined ==
    Scored =>
        \A k \in QualityRows :
            IsNaN(df_scores[k].score_raw) => DefinedSubblocks(df_scores[k]) = {}

\* C3: each sub-block score is the weighted average of its present signals,
\* by the rule of C1; the quality score is the weighted average of the
\* defined sub-block scores with the sub-block weights renormalized over
\* them, so an undefined sub-block changes neither sum; the quality score is
\* undefined exactly when the defined sub-blocks weigh 0 together, which
\* includes the case where every sub-block is undefined.
C3_QualityOverDefinedSubblocks ==
    Scored =>
        \A k \in QualityRows :
            LET row == df_scores[k]
                D == DefinedSubblocks(row)
                W == DefinedSubblockWeight(row)
            IN  /\ DOMAIN row.subblock_scores = DOMAIN config.blocks["quality"].subblocks
                /\ \A sb \in DOMAIN row.subblock_scores :
                      IsPresentAverage(row.subblock_scores[sb],
                          SignalWeights(config.blocks["quality"].subblocks[sb].signals),
                          k[1], k[2])
                /\ IsNaN(row.score_raw) <=> (W = Zero)
                /\ W # Zero =>
                      RMul(row.score_raw, W)
                        = SumOver([sb \in D |-> RMul(row.subblock_scores[sb],
                                                     SubblockWeight(sb))], D)

\* structural is defined, financial is not, both weigh more than 0: the
\* quality score is the structural score
C3_Witness ==
    /\ Scored
    /\ <<ScoreDate, Target, "quality">> \in DOMAIN df_scores
    /\ LET row == df_scores[<<ScoreDate, Target, "quality">>]
       IN  /\ DefinedSubblocks(row) = {"structural"}
           /\ RGt(SubblockWeight("structural"), Zero)
           /\ RGt(SubblockWeight("financial"), Zero)
           /\ row.score_raw = row.subblock_scores["structural"]
           /\ row.score_raw = RInt(80)

Normalized == pc # "signals"

\* the (signal, date) groups of the raw signals and their observations
Groups == {<<k[1], k[2]>> : k \in DOMAIN df_signals}
GroupKeys(g) == {k \in DOMAIN df_signals : k[1] = g[1] /\ k[2] = g[2]}
ValidKeys(g) == {k \in GroupKeys(g) : NotNa(df_signals[k])}

Neutral == RInt(50)

\* C4: in a (signal, date) group with fewer than 3 defined raw values,
\* every observation with a defined raw value gets value_normalized 50
\* exactly, whatever the raw values are.
C4_FewObservationsNeutral ==
    Normalized =>
        \A g \in Groups :
            Cardinality(ValidKeys(g)) < 3 =>
                \A k \in ValidKeys(g) :
                    /\ k \in DOMAIN df_normalized
                    /\ df_normalized[k].value_normalized = Neutral

\* the scale estimate of a group, from its winsorized values: the MAD in
\* robust mode, the standard deviation in classical mode
ScaleEstimate(g) ==
    LET w == [k \in GroupKeys(g) |-> df_normalized[k].value_winsorized]
    IN  IF config.use_robust
        THEN Median([k \in GroupKeys(g) |-> RAbs(RSub(w[k], Median(w)))])
        ELSE Std(w)

\* C5: when the scale estimate of a group is zero (MAD = 0 in robust mode,
\* standard deviation = 0 in classical mode), every defined value of the
\* group normalizes to 50, also when the winsorized values are not all
\* identical.
C5_ZeroScaleNeutral ==
    Normalized =>
        \A g \in Groups :
            (ValidKeys(g) # {} /\ ScaleEstimate(g) = Zero) =>
                \A k \in ValidKeys(g) :
                    df_normalized[k].value_normalized = Neutral

\* C9: raw observations with an undefined value are excluded: the group's
\* quantiles, center and scale are those of the defined values alone, an
\* undefined raw value never gets a defined value_normalized, and the
\* output of normalization holds one row for each raw observation with a
\* defined value and none for an observation without one.
C9_UndefinedRawExcluded ==
    Normalized =>
        /\ \A k \in DOMAIN df_signals \cap DOMAIN df_normalized :
              IsNaN(df_signals[k]) => IsNaN(df_normalized[k].value_normalized)
        /\ \A g \in Groups :
              LET all == [k \in GroupKeys(g) |-> df_signals[k]]
                  defined == [k \in ValidKeys(g) |-> df_signals[k]]
              IN  /\ Quantile(all, PLow) = Quantile(defined, PLow)
                  /\ Quantile(all, PHigh) = Quantile(defined, PHigh)
                  /\ \A k \in ValidKeys(g) :
                        df_normalized[k] =
                            NormalizeDate(defined, signal_directions(config, g[1]),
                                          config.use_robust)[k]
        /\ df_signals # Empty =>
              DOMAIN df_normalized = {k \in DOMAIN df_signals : NotNa(df_signals[k])}

\* the direction the configuration gives a signal, found without the code's
\* dictionary: the direction of an entry for it in a block's signals or in
\* the signals of a sub-block
ConfiguredDirections(signal_name) ==
    {config.blocks[b].signals[signal_name].direction :
        b \in {x \in DOMAIN config.blocks :
                 signal_name \in DOMAIN config.blocks[x].signals}}
    \cup {config.blocks[bs[1]].subblocks[bs[2]].signals[signal_name].direction :
            bs \in {x \in UNION {{<<b, sb>> : sb \in DOMAIN config.blocks[b].subblocks} :
                                   b \in DOMAIN config.blocks} :
                      signal_name \in DOMAIN config.blocks[x[1]].subblocks[x[2]].signals}}

\* C10: in one (signal, date) group, for two entities a, b with defined raw
\* values and raw(a) <= raw(b): value_normalized(a) <= value_normalized(b)
\* when the signal is configured with direction +1, and value_normalized(a)
\* >= value_normalized(b) when it is configured with direction -1, whether
\* the signal is configured in a block or in a sub-block.
C10_DirectionMonotone ==
    Normalized =>
        \A g \in Groups :
            \A a, b \in ValidKeys(g) :
                (a # b /\ RLe(df_signals[a], df_signals[b])) =>
                    /\ ConfiguredDirections(g[1]) = {1} =>
                          RLe(df_normalized[a].value_normalized,
                              df_normalized[b].value_normalized)
                    /\ ConfiguredDirections(g[1]) = {-1} =>
                          RGe(df_normalized[a].value_normalized,
                              df_normalized[b].value_normalized)

\* a signal configured in a sub-block with direction -1: the entity with
\* the smaller raw value gets the strictly larger normalized value
C10_Witness ==
    /\ Normalized
    /\ config.blocks["quality"].subblocks # Empty
    /\ ConfiguredDirections("A") = {-1}
    /\ \E a, b \in ValidKeys(<<"A", ScoreDate>>) :
          /\ RLt(df_signals[a], df_signals[b])
          /\ RGt(df_normalized[a].value_normalized,
                 df_normalized[b].value_normalized)

InRange(x) == RGe(x, Zero) /\ RLe(x, RInt(100))

\* the penalties recorded in a score row, and their sum
PenaltyNames(row) == {p[1] : p \in row.penalties}
PenaltyOf(row, name) == (CHOOSE p \in row.penalties : p[1] = name)[2]
PenaltySum(row) ==
    SumOver([n \in PenaltyNames(row) |-> PenaltyOf(row, n)], PenaltyNames(row))

\* score_adjusted before the floor: score_raw minus the accumulated penalty
PreFloor(row) == RSub(row.score_raw, PenaltySum(row))

DefinedSignalRows ==
    {k \in DOMAIN df_scores :
        k[3] \in SignalBlocks /\ NotNa(df_scores[k].score_raw)}

NormalizedInRange ==
    \A k \in DOMAIN df_normalized :
        NotNa(df_normalized[k].value_normalized) =>
            InRange(df_normalized[k].value_normalized)

\* C6 as stated: every defined value_normalized lies within [0,100],
\* score_raw minus the accumulated penalty (score_adjusted before the
\* floor) lies within [0,100], and the final score_adjusted is >= 0.
C6_PreFloorInRange ==
    /\ NormalizedInRange
    /\ Scored =>
          \A k \in DefinedSignalRows :
              /\ InRange(PreFloor(df_scores[k]))
              /\ RGe(df_scores[k].score_adjusted, Zero)

\* C6: every defined value_normalized and every defined score_raw of a
\* block aggregated from normalized signals lies within [0,100]; score_raw
\* minus the accumulated penalty is at most 100 and is negative exactly
\* when the penalty exceeds score_raw; the final score_adjusted lies
\* within [0,100].
C6_ScoresInRange ==
    /\ NormalizedInRange
    /\ Scored =>
          \A k \in DefinedSignalRows :
              /\ InRange(df_scores[k].score_raw)
              /\ RLe(PreFloor(df_scores[k]), RInt(100))
              /\ RLt(PreFloor(df_scores[k]), Zero)
                    <=> RGt(PenaltySum(df_scores[k]), df_scores[k].score_raw)
              /\ InRange(df_scores[k].score_adjusted)

\* a score of 0 with a penalty: negative before the floor, 0 after it
C6_Witness ==
    /\ Scored
    /\ \E k \in DefinedSignalRows :
          /\ df_scores[k].score_raw = Zero
          /\ df_scores[k].penalties # {}
          /\ RLt(PreFloor(df_scores[k]), Zero)
          /\ df_scores[k].score_adjusted = Zero

\* the risk metrics of a rule's column on a date, and the entity's own
RiskColumn(name, date) ==
    [k \in {r \in DOMAIN df_risk.rows : r[1] = date} |-> df_risk.rows[k][name]]

RiskThreshold(name, date) ==
    Quantile(RiskColumn(name, date), config.soft_penalties[name].threshold_percentile)

HasMetric(name, date, ticker) ==
    /\ <<date, ticker>> \in DOMAIN df_risk.rows
    /\ name \in df_risk.columns
    /\ NotNa(df_risk.rows[<<date, ticker>>][name])

\* the configured rules whose affected blocks include the block (by name
\* or by 'all') and whose metric for the entity exceeds the threshold
FiringRules(date, ticker, block) ==
    {name \in DOMAIN config.soft_penalties :
        /\ \/ block \in config.soft_penalties[name].affected_scores
           \/ "all" \in config.soft_penalties[name].affected_scores
        /\ HasMetric(name, date, ticker)
        /\ RGt(df_risk.rows[<<date, ticker>>][name], RiskThreshold(name, date))}

\* C7: for a defined score_raw, score_adjusted = max(0, score_raw - P),
\* where P is the sum of the penalties of exactly the configured rules
\* whose affected blocks include this block and whose metric for the entity
\* exceeds the cross-sectional threshold of its date; a rule for other
\* blocks records nothing, the penalties of the rules that fire add up,
\* each is positive and at most its max_penalty, and the result is not
\* capped at 100.
C7_AdditivePenalties ==
    Scored =>
        \A k \in DOMAIN df_scores :
            NotNa(df_scores[k].score_raw) =>
                LET row == df_scores[k]
                    diff == PreFloor(row)
                IN  /\ PenaltyNames(row) = FiringRules(k[1], k[2], k[3])
                    /\ Cardinality(row.penalties) = Cardinality(PenaltyNames(row))
                    /\ \A n \in PenaltyNames(row) :
                          /\ RGt(PenaltyOf(row, n), Zero)
                          /\ RLe(PenaltyOf(row, n), config.soft_penalties[n].max_penalty)
                    /\ row.score_adjusted = IF RLt(diff, Zero) THEN Zero ELSE diff

\* two rules fire on the quality score and their penalties add up, while
\* the rule for quality alone leaves the contrarian score of the same
\* entity with one penalty
C7_Witness ==
    /\ Scored
    /\ <<ScoreDate, Target, "quality">> \in DOMAIN df_scores
    /\ LET q == df_scores[<<ScoreDate, Target, "quality">>]
           c == df_scores[<<ScoreDate, Target, "contrarian">>]
       IN  /\ PenaltyNames(q) = {"R1", "R2"}
           /\ PenaltyNames(c) = {"R1"}
           /\ config.soft_penalties["R2"].affected_scores = {"quality"}
           /\ RGt(q.score_adjusted, Zero)
           /\ q.score_adjusted
                = RSub(q.score_raw, RAdd(PenaltyOf(q, "R1"), PenaltyOf(q, "R2")))
           /\ c.score_adjusted = RSub(c.score_raw, PenaltyOf(c, "R1"))

\* the penalty a row records for a rule, 0 when it records none
RecordedPenalty(row, name) ==
    IF name \in PenaltyNames(row) THEN PenaltyOf(row, name) ELSE Zero

\* C8: for an applicable rule, an entity whose metric is exactly at the
\* threshold of its date gets penalty 0, an entity whose metric is the
\* maximum of its date (above the threshold) gets exactly max_penalty, and
\* in between the penalty is linear in the excess over the threshold:
\* max_penalty * (value - threshold) / (max - threshold).
C8_LinearPenaltyToMax ==
    Scored =>
        \A k \in DOMAIN df_scores :
            NotNa(df_scores[k].score_raw) =>
                \A name \in DOMAIN config.soft_penalties :
                    LET rule == config.soft_penalties[name]
                        value == df_risk.rows[<<k[1], k[2]>>][name]
                        threshold == RiskThreshold(name, k[1])
                        vmax == SeriesMax(RiskColumn(name, k[1]))
                        penalty == RecordedPenalty(df_scores[k], name)
                    IN  (/\ \/ k[3] \in rule.affected_scores
                            \/ "all" \in rule.affected_scores
                         /\ HasMetric(name, k[1], k[2])) =>
                            /\ value = threshold => penalty = Zero
                            /\ (value = vmax /\ RGt(vmax, threshold)) =>
                                  penalty = rule.max_penalty
                            /\ RGt(value, threshold) =>
                                  RMul(penalty, RSub(vmax, threshold))
                                    = RMul(rule.max_penalty, RSub(value, threshold))

\* the raw observations of one (signal, date) group alone, normalized
GroupAlone(g) ==
    normalize_all_signals([k \in GroupKeys(g) |-> df_signals[k]], config)

\* C11: normalization is cross-sectional per date: the winsorized, z-score
\* and normalized values of a signal on a date are those obtained from the
\* raw values of that signal on that date alone, whatever observations of
\* other dates or other signals the input holds.
C11_CrossSectionalPerDate ==
    Normalized =>
        \A g \in Groups :
            [k \in GroupKeys(g) |-> df_normalized[k]] = GroupAlone(g)

\* three defined values of A on ScoreDate that do not all normalize to the
\* same value, with observations of A on the other date in the input
C11_Witness ==
    /\ Normalized
    /\ <<"A", OtherDate, "E1">> \in DOMAIN df_signals
    /\ <<"A", OtherDate, "E2">> \in DOMAIN df_signals
    /\ Cardinality(ValidKeys(<<"A", ScoreDate>>)) = 3
    /\ df_signals[<<"A", OtherDate, "E1">>] # df_signals[<<"A", OtherDate, "E2">>]
    /\ RLt(df_normalized[<<"A", ScoreDate, "E1">>].value_normalized,
           df_normalized[<<"A", ScoreDate, "E2">>].value_normalized)

\* ---------------------------------------------------------------------------
\* Quintiles
\* ---------------------------------------------------------------------------
Quintiled == pc = "quintiles"
ReferenceRows == {k \in DOMAIN df_scores : k[3] = "contrarian"}

\* the defined reference scores of a date, by ticker
DefinedScores(date) ==
    [t \in {k[2] : k \in {r \in ReferenceRows :
                            r[1] = date /\ NotNa(df_scores[r].score_adjusted)}} |->
        df_scores[<<date, t, "contrarian">>].score_adjusted]

\* z = (score_adjusted - mean) / std over the defined scores of the date
ZScoreOf(k) ==
    RDiv(RSub(df_scores[k].score_adjusted, Mean(DefinedScores(k[1]))),
         Std(DefinedScores(k[1])))

InBand(z, q) ==
    CASE q = 1 -> RLt(z, Rat(-84, 100))
      [] q = 2 -> RGe(z, Rat(-84, 100)) /\ RLt(z, Rat(-25, 100))
      [] q = 3 -> RGe(z, Rat(-25, 100)) /\ RLt(z, Rat(25, 100))
      [] q = 4 -> RGe(z, Rat(25, 100)) /\ RLt(z, Rat(84, 100))
      [] q = 5 -> RGe(z, Rat(84, 100))

Ranks == {RInt(q) : q \in 1..5}

\* a z-score in band q has quintile q
BandOf(z, quintile) == \A q \in 1..5 : InBand(z, q) => quintile = RInt(q)

\* C12: the z-cutoff method assigns quintile 1 if z < -0.84, 2 if
\* -0.84 <= z < -0.25, 3 if -0.25 <= z < 0.25, 4 if 0.25 <= z < 0.84 and 5
\* if z >= 0.84, z taken over the defined reference scores of the date; so
\* within a date the quintile is non-decreasing in score_adjusted and in
\* 1..5 when assigned.
C12_ZCutoffBands ==
    Quintiled =>
        /\ \A k \in ReferenceRows : BandOf(ZScoreOf(k), df_scores[k].quintile)
        /\ \A k \in ReferenceRows :
              NotNa(df_scores[k].quintile) => df_scores[k].quintile \in Ranks
        /\ \A k1, k2 \in ReferenceRows :
              (/\ k1[1] = k2[1]
               /\ NotNa(df_scores[k1].quintile) /\ NotNa(df_scores[k2].quintile)
               /\ RLe(df_scores[k1].score_adjusted, df_scores[k2].score_adjusted))
              => RLe(df_scores[k1].quintile, df_scores[k2].quintile)

\* a date with scores in the lowest band, in a middle band and in the highest
C12_Witness ==
    /\ Quintiled
    /\ \E k1, k2, k3 \in ReferenceRows :
          /\ k1[1] = ScoreDate /\ k2[1] = ScoreDate /\ k3[1] = ScoreDate
          /\ InBand(ZScoreOf(k1), 1) /\ df_scores[k1].quintile = RInt(1)
          /\ InBand(ZScoreOf(k2), 2) /\ df_scores[k2].quintile = RInt(2)
          /\ InBand(ZScoreOf(k3), 5) /\ df_scores[k3].quintile = RInt(5)

\* C13: an entity whose reference-block score_adjusted is undefined on a
\* date receives no quintile for that date (a missing value, not a rank
\* and not 0), in add_quintiles and in calculate_quintiles alike.
C13_UndefinedScoreNoQuintile ==
    /\ Quintiled =>
          \A k \in ReferenceRows :
              IsNaN(df_scores[k].score_adjusted) => IsNaN(df_scores[k].quintile)
    /\ quintiles # Empty =>
          \A t \in DOMAIN quintiles :
              IsNaN(ScoreSeries[t]) => IsNaN(quintiles[t])

\* both methods have run on a date with an undefined and two defined
\* reference scores
C13_Witness ==
    /\ Quintiled
    /\ quintiles # Empty
    /\ \E t \in DOMAIN quintiles :
          /\ IsNaN(ScoreSeries[t])
          /\ IsNaN(quintiles[t])
          /\ IsNaN(df_scores[<<ScoreDate, t, "contrarian">>].quintile)
    /\ \E t \in DOMAIN quintiles :
          /\ quintiles[t] \in Ranks
          /\ df_scores[<<ScoreDate, t, "contrarian">>].quintile \in Ranks
    /\ Cardinality(DOMAIN DefinedScores(ScoreDate)) = 2

\* C14 as claimed: after add_quintiles every row that carries a quintile
\* has a defined score_adjusted of its own.
C14_QuintileOnlyWithOwnScore ==
    Quintiled =>
        \A k \in DOMAIN df_scores :
            NotNa(df_scores[k].quintile) => NotNa(df_scores[k].score_adjusted)

\* C14 as amended: after add_quintiles every row that carries a quintile
\* belongs to an entity whose reference-block score_adjusted is defined on
\* that date, and carries the quintile of that reference row.
C14_QuintileOnlyWithReferenceScore ==
    Quintiled =>
        \A k \in DOMAIN df_scores :
            NotNa(df_scores[k].quintile) =>
                /\ NotNa(df_scores[<<k[1], k[2], "contrarian">>].score_adjusted)
                /\ df_scores[k].quintile = df_scores[<<k[1], k[2], "contrarian">>].quintile

\* a row of another block without a score of its own carries the quintile
\* of the entity, on a table of two dates
C14_Witness ==
    /\ Quintiled
    /\ \E k \in DOMAIN df_scores :
          /\ k[3] = "quality"
          /\ IsNaN(df_scores[k].score_adjusted)
          /\ df_scores[k].quintile \in Ranks
    /\ \E k \in DOMAIN df_scores : k[1] = OtherDate
    /\ \E k \in ReferenceRows : IsNaN(df_scores[k].score_adjusted)

Recalculated == quintiles # Empty
ValidTickers == Valid(ScoreSeries)

AllDistinct(s, valid) == \A i, j \in valid : s[i] = s[j] => i = j

\* the number of entities of quintile q
QuintileCount(q) == Cardinality({t \in DOMAIN quintiles : quintiles[t] = RInt(q)})

EvenCounts(n) ==
    \A q \in 1..5 : QuintileCount(q) \in {n \div 5, (n + 4) \div 5}

MonotoneIn(s, valid) ==
    \A i, j \in valid : RLt(s[i], s[j]) => RLe(quintiles[i], quintiles[j])

\* C15: the percentile-rank method applied to N distinct defined scores puts
\* floor(N/5) or ceil(N/5) entities in each of the quintiles 1..5, exactly 20
\* in each for N = 100, and a higher score never gets a lower quintile.
C15_EqualSizedQuintiles ==
    (Recalculated /\ AllDistinct(ScoreSeries, ValidTickers)) =>
        /\ EvenCounts(Cardinality(ValidTickers))
        /\ Cardinality(ValidTickers) = 100 => \A q \in 1..5 : QuintileCount(q) = 20
        /\ MonotoneIn(ScoreSeries, ValidTickers)

\* 100 distinct scores, not in ascending order, and an entity without one
C15_Witness ==
    /\ Recalculated
    /\ Cardinality(ValidTickers) = 100
    /\ Cardinality(DOMAIN quintiles) = 101
    /\ RLt(ScoreSeries[2], ScoreSeries[1])
    /\ \A q \in 1..5 : QuintileCount(q) = 20

\* the percentile rank of an entity with a score
PercentileRank(t) == PctRank(ScoreSeries, ValidTickers, t)

\* rank in [lo, hi) for the bands below the last, [80%, 100%] for the last
InHalfOpenBand(rank, q) ==
    /\ RGe(rank, Rat(q - 1, 5))
    /\ IF q = 5 THEN RLe(rank, Rat(q, 5)) ELSE RLt(rank, Rat(q, 5))

HalfOpenBandOf(rank, quintile) ==
    \A q \in 1..5 : InHalfOpenBand(rank, q) => quintile = RInt(q)

\* C16 as claimed: the percentile-rank method buckets by the half-open bands
\* [0,20), [20,40), [40,60), [60,80), [80,100], so that a percentile rank of
\* exactly 20% (40%, 60%, 80%) falls in the upper band, quintile 2 (3, 4, 5).
C16_HalfOpenBands ==
    Recalculated =>
        \A t \in ValidTickers : HalfOpenBandOf(PercentileRank(t), quintiles[t])

\* rank in (lo, hi]
InRightClosedBand(rank, q) == RGt(rank, Rat(q - 1, 5)) /\ RLe(rank, Rat(q, 5))

RightClosedBandOf(rank, quintile) ==
    \A q \in 1..5 : InRightClosedBand(rank, q) => quintile = RInt(q)

\* C16 as amended: the percentile-rank method buckets by the bands (0,20],
\* (20,40], (40,60], (60,80], (80,100], so that a percentile rank of exactly
\* 20% (40%, 60%, 80%) falls in the lower band, quintile 1 (2, 3, 4).
C16_RightClosedBands ==
    Recalculated =>
        \A t \in ValidTickers : RightClosedBandOf(PercentileRank(t), quintiles[t])

\* entities at exactly 20%, 40%, 60% and 80% in quintiles 1, 2, 3 and 4
C16_Witness ==
    /\ Recalculated
    /\ \A q \in 1..4 :
          \E t \in ValidTickers :
              PercentileRank(t) = Rat(q, 5) /\ quintiles[t] = RInt(q)

\* the quintile of the z-cutoff method for the reference row of a ticker
ZCutoffQuintile(t) == df_scores[<<ScoreDate, t, "contrarian">>].quintile

\* the number of reference rows of ScoreDate with quintile q
ZCutoffCount(q) == Cardinality({t \in DOMAIN ScoreSeries : ZCutoffQuintile(t) = RInt(q)})

\* three or more distinct defined scores whose mean is not their median
Skewed(s, valid) ==
    /\ valid = DOMAIN s
    /\ Cardinality(valid) >= 3
    /\ AllDistinct(s, valid)
    /\ Mean(s) # Median(s)

\* C17: the two methods can disagree: on a skewed set of distinct scores of
\* one date they give some entity different quintiles, the percentile-rank
\* buckets are equal-sized (floor(N/5) or ceil(N/5) each) and the z-cutoff
\* buckets are not.
C17_MethodsDisagreeOnSkewed ==
    (Quintiled /\ Recalculated /\ Skewed(ScoreSeries, ValidTickers)) =>
        /\ \E t \in ValidTickers : ZCutoffQuintile(t) # quintiles[t]
        /\ EvenCounts(Cardinality(ValidTickers))
        /\ \E q \in 1..5 : ZCutoffCount(q) > (Cardinality(ValidTickers) + 4) \div 5

\* the scores 0, 1, 2 and 30: the z-cutoff method puts three entities in
\* quintile 2, the percentile-rank method one each in quintiles 2..5
C17_Witness ==
    /\ Quintiled
    /\ Recalculated
    /\ Skewed(ScoreSeries, ValidTickers)
    /\ Cardinality(ValidTickers) = 4
    /\ ZCutoffCount(2) = 3
    /\ ZCutoffCount(5) = 1
    /\ \A q \in 2..5 : QuintileCount(q) = 1

\* ---------------------------------------------------------------------------
\* Versions
\* ---------------------------------------------------------------------------
\* the config_hash part of a version id
HashOf(version_id) == version_id.config_hash

\* C18: compute_config_hash is independent of the key order at every nesting
\* level: two configurations with the same content in different key orders
\* have the same hash, and the same configuration hashed twice has the same
\* hash.
C18_HashIgnoresKeyOrder ==
    \A i, j \in DOMAIN saved :
        PyEq(saved[i].config, saved[j].config) =>
            HashOf(saved[i].version_id) = HashOf(saved[j].version_id)

\* the nested configuration saved in both key orders
C18_Witness ==
    /\ Len(saved) = 2
    /\ saved[1].config = ConfigNested
    /\ saved[2].config = ConfigNestedSwapped
    /\ saved[1].config # saved[2].config
    /\ HashOf(saved[1].version_id) = HashOf(saved[2].version_id)
    /\ HashOf(saved[1].version_id) # compute_config_hash(ConfigXY)

\* the record load_version returns for the i-th save_version call
LoadedFor(i) == load_version(version_dir, saved[i].version_id)

\* C19 as claimed: for every configuration, loading the version id returned
\* by save_version yields a record whose configuration equals the saved
\* configuration and whose config_hash is compute_config_hash of it, also
\* when other versions were saved in between.
C19_RoundTrip ==
    \A i \in DOMAIN saved :
        /\ PyEq(LoadedFor(i).config, saved[i].config)
        /\ LoadedFor(i).config_hash = compute_config_hash(saved[i].config)

\* C20 as claimed: a version is immutable once written: no later call of
\* save_version, load_version or list_versions, at whatever time, changes
\* the record load_version returns for a version id already returned.
C20_ImmutableOnceWritten ==
    [][\A v \in DOMAIN version_dir :
           load_version(version_dir', v) = load_version(version_dir, v)]_vars

\* ------------------------------------------------------------------------
\* The audit trail
\* ------------------------------------------------------------------------
\* C21: the audit trail is append-only: after any sequence of log_run calls,
\* two calls with the same run_id included, every record logged is still
\* stored unchanged and the number of stored records is the number of calls
C21_AppendOnly ==
    pc = "audit" =>
        /\ Cardinality(DOMAIN audit_dir) = Len(logged)
        /\ \A i \in DOMAIN logged :
              \E f \in DOMAIN audit_dir : audit_dir[f] = logged[i]

\* ------------------------------------------------------------------------
\* Concurrent writers
\* ------------------------------------------------------------------------
AllClosed == pc = "writers" /\ \A p \in Writers : writers[p].pc = "done"

\* C22: when two processes run save_version or log_run at the same time,
\* every interleaving of their file operations leaves each file equal to
\* the complete record of one call, and the record of every call stored
C22_ConcurrentWritersSafe ==
    AllClosed =>
        /\ \A f \in DOMAIN files : \E p \in Writers : files[f] = writers[p].blocks
        /\ \A p \in Writers : files[writers[p].name] = writers[p].blocks

\* a file left with blocks of two calls
TornFile ==
    AllClosed /\ \E f \in DOMAIN files : \A p \in Writers : files[f] # writers[p].blocks

\* ------------------------------------------------------------------------
\* Reading the version store
\* ------------------------------------------------------------------------
IsError(value) == "error" \in DOMAIN value

\* one summary for every stored version and no other
OnePerVersion(list, stored) ==
    /\ Len(list) = Cardinality(DOMAIN stored)
    /\ \A v \in DOMAIN stored :
          Cardinality({i \in DOMAIN list : list[i].version_id = v}) = 1

\* C23: load_version of a version id that was never saved fails with an
\* error and returns no default or empty record (and a stored one is
\* returned); load_version and list_versions, failing or not, leave the
\* stored versions as they are; list_versions returns exactly one summary
\* per stored version
C23_ReadsArePure ==
    [][returned'.op \in {"load_version", "list_versions"} =>
          /\ version_dir' = version_dir
          /\ returned'.op = "load_version" =>
                /\ IsError(returned'.value)
                      <=> returned'.value.version_id \notin DOMAIN version_dir
                /\ ~IsError(returned'.value)
                      => returned'.value.version_id \in DOMAIN version_dir
          /\ returned'.op = "list_versions" =>
                OnePerVersion(returned'.value, version_dir)]_vars

\* a load that failed while another version is stored
C23_Witness ==
    /\ returned.op = "load_version"
    /\ IsError(returned.value)
    /\ version_dir # Empty
    /\ returned.value.version_id \notin DOMAIN version_dir

\* ------------------------------------------------------------------------
\* Signal names the configuration references
\* ------------------------------------------------------------------------
\* the signal names the weights of a configuration reference
BlockSignals(block_config) ==
    DOMAIN block_config.signals
    \cup UNION {DOMAIN block_config.subblocks[sb].signals :
                  sb \in DOMAIN block_config.subblocks}

ReferencedSignals(cfg) ==
    UNION {BlockSignals(cfg.blocks[BlockNames[b]]) : b \in DOMAIN BlockNames}

\* the signal names the signal table holds
KnownSignals(table) == {k[1] : k \in DOMAIN table}

\* C24: a weight specification that references a signal name unknown to the
\* signal table is a hard failure of normalization and aggregation: no
\* scores are computed from it
C24_UnknownSignalFails ==
    pc = "scored" => ReferencedSignals(config) \subseteq KnownSignals(df_normalized)

\* ------------------------------------------------------------------------
\* Validation and comparison reports
\* ------------------------------------------------------------------------
\* a comparison report of the scores against a stored baseline
Compared == report.op = "compare_to_baseline" /\ "error" \notin DOMAIN report

JoinKeys(baseline) == DOMAIN df_scores \cap DOMAIN baseline

KeyOf(entry) == <<entry.date, entry.ticker, entry.block>>

Listed(list, k) == \E entry \in list : KeyOf(entry) = k

\* a joined row with its delta is in the list it belongs to and no other
RowClassified(k, delta, tolerance) ==
    /\ Listed(report.regressions, k) <=> RLt(delta, RNeg(tolerance))
    /\ Listed(report.improvements, k) <=> RGt(delta, tolerance)
    /\ (IsNaN(delta) \/ RLe(RAbs(delta), tolerance)) =>
          ~Listed(report.regressions, k) /\ ~Listed(report.improvements, k)
    /\ ~(Listed(report.regressions, k) /\ Listed(report.improvements, k))

ComparisonOf(baseline, tolerance) ==
    /\ \A k \in JoinKeys(baseline) :
          RowClassified(k, RSub(df_scores[k].score_adjusted,
                                baseline[k].score_adjusted), tolerance)
    /\ \A entry \in report.regressions \cup report.improvements :
          KeyOf(entry) \in JoinKeys(baseline)
    /\ report.statistics.regressions_count = Cardinality(report.regressions)
    /\ report.statistics.improvements_count = Cardinality(report.improvements)
    /\ report.statistics.total_comparisons = Cardinality(JoinKeys(baseline))

\* C25: compare_to_baseline joins the scores and the baseline on (entity,
\* date, block); with delta = current - baseline score_adjusted, a joined
\* row is a regression iff delta < -tolerance and an improvement iff
\* delta > tolerance; a row with |delta| <= tolerance or an undefined delta
\* is in neither list, no row is in both, and the three counts are the
\* sizes of the two lists and of the join
C25_RegressionsAndImprovements ==
    Compared => ComparisonOf(baseline_dir[report.baseline_version],
                             RInt(DefaultTolerance))

\* a comparison of two joined rows, one a regression and one an improvement,
\* with rows of either table outside the join
C25_Witness ==
    /\ Compared
    /\ report.statistics.total_comparisons = 2
    /\ report.statistics.regressions_count = 1
    /\ report.statistics.improvements_count = 1
    /\ Cardinality(DOMAIN df_scores) > 2
    /\ Cardinality(DOMAIN baseline_dir[report.baseline_version]) > 2

\* the blocks of the table whose scores are all null
NullBlocks == {b \in BlocksOf(df_scores) : Valid(BlockScores(df_scores, b)) = {}}

\* a report of validate_scores: a verdict, and for every block that is
\* entirely null its null count and statistics of no score
ScoresReported(r) ==
    /\ r.valid \in BOOLEAN
    /\ \A b \in NullBlocks :
          /\ r.statistics[b].count = 0
          /\ \E entry \in r.null_scores :
                /\ entry.block = b
                /\ entry.count = Cardinality(DOMAIN BlockScores(df_scores, b))

\* a report of validate_quintile_distribution on a table without quintiles
DistributionReported(r) ==
    ~HasQuintileColumn(df_scores) =>
        /\ r.valid = FALSE
        /\ r.warnings = {[message |-> "No quintile column found"]}

\* a report of compare_to_baseline: the missing baseline as an error entry,
\* a baseline without a shared key as a comparison of no row
ComparisonReported(r, stored) ==
    IF r.baseline_version \notin DOMAIN stored
    THEN r.error = "Baseline not found"
    ELSE /\ "error" \notin DOMAIN r
         /\ JoinKeys(stored[r.baseline_version]) = {} =>
               /\ r.statistics.total_comparisons = 0
               /\ r.regressions = {}
               /\ r.improvements = {}
               /\ IsNaN(r.statistics.mean_diff)

\* C26: the validation and comparison routines return a structured report
\* and do not raise: validate_scores on blocks that are entirely null,
\* validate_quintile_distribution on a table without a quintile column,
\* compare_to_baseline against a baseline that does not exist (an error
\* entry) or shares no key with the scores; and none of them changes the
\* stored versions, audit records or baselines
C26_ReportsNeverRaise ==
    [][report' # report =>
          /\ UNCHANGED <<version_dir, audit_dir, baseline_dir>>
          /\ report'.op = "validate_scores" => ScoresReported(report')
          /\ report'.op = "validate_quintile_distribution" =>
                DistributionReported(report')
          /\ report'.op = "compare_to_baseline" =>
                ComparisonReported(report', baseline_dir)]_vars

\* the error entry for a baseline that is not stored, returned while
\* another baseline is
C26_Witness ==
    /\ report.op = "compare_to_baseline"
    /\ "error" \in DOMAIN report
    /\ report.error = "Baseline not found"
    /\ report.baseline_version \notin DOMAIN baseline_dir
    /\ baseline_dir # Empty
    /\ NullBlocks # {}

\* a report of validate_scores is the last result
ScoresValidated == report.op = "validate_scores"

DefinedOutside(block_scores, lo, hi) ==
    {k \in DOMAIN block_scores :
        /\ NotNa(block_scores[k])
        /\ ~(RLe(lo, block_scores[k]) /\ RLe(block_scores[k], hi))}

\* the entries of a list for one block
EntriesOf(list, b) == {entry \in list : entry.block = b}

\* the null count of a block is reported by one entry, or by none when
\* the block has no null score
NullsReported(b, nulls) ==
    EntriesOf(report.null_scores, b) =
        IF nulls = {} THEN {} ELSE {[block |-> b, count |-> Cardinality(nulls)]}

\* the scores of a block outside the range are reported by one entry with
\* their count, least and greatest, or by none when there is no such score
OutsideReported(b, block_scores, outside) ==
    IF outside = {} THEN EntriesOf(report.out_of_range, b) = {}
    ELSE /\ Cardinality(EntriesOf(report.out_of_range, b)) = 1
         /\ \A entry \in EntriesOf(report.out_of_range, b) :
               /\ entry.count = Cardinality(outside)
               /\ \E k \in outside : entry.min = block_scores[k]
               /\ \E k \in outside : entry.max = block_scores[k]
               /\ \A k \in outside : /\ RLe(entry.min, block_scores[k])
                                      /\ RLe(block_scores[k], entry.max)

BlockReported(b, block_scores, lo, hi) ==
    /\ NullsReported(b, {k \in DOMAIN block_scores : IsNaN(block_scores[k])})
    /\ OutsideReported(b, block_scores, DefinedOutside(block_scores, lo, hi))

\* C27: validate_scores reports, per block, the count of null score_adjusted
\* values and the count, min and max of the defined values outside the
\* expected range; valid is false iff some defined score of some block lies
\* outside [expected_min, expected_max], bounds included, so null scores
\* alone never make it false; statistics has one entry for every block
C27_ScoreRangeReport ==
    ScoresValidated =>
        /\ \A b \in BlocksOf(df_scores) :
              BlockReported(b, BlockScores(df_scores, b),
                            RInt(ExpectedMin), RInt(ExpectedMax))
        /\ report.valid = FALSE
              <=> \E b \in BlocksOf(df_scores) :
                     DefinedOutside(BlockScores(df_scores, b),
                                    RInt(ExpectedMin), RInt(ExpectedMax)) # {}
        /\ DOMAIN report.statistics = BlocksOf(df_scores)

\* a valid report of a table with null scores and with scores on both
\* bounds of the range
C27_Witness ==
    /\ ScoresValidated
    /\ report.valid
    /\ report.null_scores # {}
    /\ \E k \in DOMAIN df_scores : df_scores[k].score_adjusted = RInt(ExpectedMin)
    /\ \E k \in DOMAIN df_scores : df_scores[k].score_adjusted = RInt(ExpectedMax)

\* a report of validate_quintile_distribution on a table with quintiles
DistributionValidated ==
    report.op = "validate_quintile_distribution" /\ HasQuintileColumn(df_scores)

\* the rows of quintile q and the rows that have a quintile
RowsOf(q) == {k \in DOMAIN df_scores : df_scores[k].quintile = RInt(q)}
RowsWithQuintile == {k \in DOMAIN df_scores : NotNa(df_scores[k].quintile)}

\* the share of q deviates from expected_pct by more than tolerance (a
\* quintile without a member has share 0)
ShareDeviates(members, total, expected_pct, tolerance) ==
    IF members = 0 THEN RGt(expected_pct, tolerance)
    ELSE RGt(RAbs(RSub(Rat(members, total), expected_pct)), tolerance)

Flagged(q) == \E w \in report.warnings : w.quintile = q

\* the quintiles flagged are those whose share deviates
C28_FlagsExact ==
    DistributionValidated =>
        \A q \in 1..5 :
            Flagged(q) <=> ShareDeviates(Cardinality(RowsOf(q)),
                                         Cardinality(RowsWithQuintile),
                                         ExpectedPct, QuintileTolerance)

\* C28: validate_quintile_distribution flags exactly the quintiles q in 1..5
\* whose share among the rows that have a quintile deviates from
\* expected_pct by more than tolerance, a quintile without a member
\* included, and valid is false whenever a quintile is flagged
C28_FlaggedMeansInvalid ==
    /\ C28_FlagsExact
    /\ DistributionValidated =>
          ((\E q \in 1..5 : Flagged(q)) => report.valid = FALSE)

\* ------------------------------------------------------------------------
\* Degenerate cross-sections
\* ------------------------------------------------------------------------
\* the defined reference scores of a date are all equal: they have standard
\* deviation 0, or there is exactly one and the sample standard deviation
\* is undefined
Degenerate(scores) ==
    /\ DOMAIN scores # {}
    /\ \A t1, t2 \in DOMAIN scores : scores[t1] = scores[t2]

\* C30: when the reference block has a degenerate cross-section on a date
\* (all defined scores equal, or exactly one defined score), add_quintiles
\* assigns no quintile on that date: no entity receives a rank in 1..5
C30_DegenerateNoQuintile ==
    Quintiled =>
        \A k \in DOMAIN df_scores :
            Degenerate(DefinedScores(k[1])) => IsNaN(df_scores[k].quintile)

\* ------------------------------------------------------------------------
\* The audit record of an execution
\* ------------------------------------------------------------------------
\* the execution has ended: the scores were returned or an exception raised
Ended == pc = "run" /\ run.pc \in {"returned", "raised"}

\* the execution got past save_version
PastSaveVersion == pc = "run" /\ run.version_id # NotSaved

\* every stage and every output write before the success record completed
\* (the baseline step completes without a write when none is requested)
AllCompleted == (Range(Stages) \ {"log_run"}) \subseteq run.completed

\* the record the execution logged is the one stored for its run id, with
\* the status of the outcome and the id of the version it saved
RecordOf(record) ==
    /\ run.run_id \in DOMAIN audit_dir
    /\ audit_dir[run.run_id] = record
    /\ record.run_id = run.run_id
    /\ record.status \in {"success", "failed"}
    /\ record.status = "success" <=> AllCompleted
    /\ record.status = "success" <=> run.pc = "returned"
    /\ record.status = "failed" <=> (run.pc = "raised" /\ run.error # "")
    /\ record.version_id = run.version_id
    /\ run.version_id \in DOMAIN version_dir

====
